---- MODULE Spec2Model ----
(***************************************************************************)
(* Invoice_Generator backend: the Invoice / LineItem domain model          *)
(* (app/models) and the client and invoice endpoints (app/api) over the    *)
(* table store.                                                            *)
(*                                                                         *)
(* Several specifications share the module and its variables.  Spec drives *)
(* one in-memory Invoice aggregate through its methods; ApiSpec and the    *)
(* specifications after it drive the HTTP handlers, one request at a time, *)
(* over the stored clients / invoices / line_items tables; ModelSpec calls *)
(* the constructors and the PDF service; RaceSpec and FaultSpec run the    *)
(* handlers one store call at a time.  Each specification leaves the       *)
(* variables it does not use untouched.                                    *)
(***************************************************************************)
EXTENDS Integers, Sequences, FiniteSets, TLC

VARIABLES
    inv,        \* the in-memory Invoice aggregate (app/models/invoice.py)
    now,        \* last reading of datetime.now(timezone.utc) / datetime.utcnow()
    today,      \* date.today()
    lastOp,     \* the step that ran last, and how many items it removed
    clients,    \* table "clients": set of rows
    invoices,   \* table "invoices": set of rows
    line_items, \* table "line_items": its rows in the order of insertion
    nextId,     \* next identifier the store generates, per table
    response,   \* the handler that ran last and its HTTP outcome
    call,       \* the last constructor or service call: arguments and result
    inflight    \* per server process: the request it is handling, between
                \* two calls to the store

domainVars == <<inv, today, lastOp>>
storeVars == <<clients, invoices, line_items, nextId, response>>
vars == <<inv, now, today, lastOp, clients, invoices, line_items, nextId, response, call,
         inflight>>

(***************************************************************************)
(* Bounds of the model.                                                    *)
(***************************************************************************)
MaxItems == 2       \* longest line-item list of the in-memory invoice
MaxNow == 2         \* clock readings are 0..MaxNow
MaxDay == 1         \* calendar days are 0..MaxDay
MaxClients == 1     \* client rows the store ever creates
MaxInvoices == 1    \* invoice rows the store ever creates
MaxLineItemRows == 3 \* line-item rows the store ever creates
MaxApiClock == 3    \* clock readings of the handlers are 0..MaxApiClock

\* Optional[datetime] = None: no timestamp
None == -1

\* no constructor or service call made yet
NoCall == [fn |-> "none", args |-> <<>>, result |-> <<>>]

\* the server processes that share the store
Workers == {1, 2}

\* a handler between two store calls: the call it makes next (pc), its
\* arguments, the line-item rows it has yet to insert and the update_data
\* it has built for the row update it has yet to issue
InFlight(pc, user, target, request, rows, update_data) ==
    [pc |-> pc, user |-> user, target |-> target, request |-> request,
     rows |-> rows, update_data |-> update_data]

\* a process that handles no request
Idle == InFlight("idle", "", 0, <<>>, 0, <<>>)

(***************************************************************************)
(* decimal.Decimal, non-negative: coef * 10^exp.  Arithmetic is exact (the *)
(* values of the model stay far below the 28 digits of the context).       *)
(***************************************************************************)
RECURSIVE Pow10(_)
Pow10(n) == IF n = 0 THEN 1 ELSE 10 * Pow10(n - 1)

Dec(c, e) == [coef |-> c, exp |-> e]

MinExp(a, b) == IF a.exp <= b.exp THEN a.exp ELSE b.exp

\* the coefficient of a at the (lower or equal) exponent e
CoefAt(a, e) == a.coef * Pow10(a.exp - e)

\* Decimal.__add__: the result carries the smaller exponent
DecAdd(a, b) == Dec(CoefAt(a, MinExp(a, b)) + CoefAt(b, MinExp(a, b)), MinExp(a, b))

\* Decimal.__mul__: coefficients multiply, exponents add
DecMul(a, b) == Dec(a.coef * b.coef, a.exp + b.exp)

\* Decimal.__truediv__ by Decimal("100"): exact, exponent as near a.exp as
\* the quotient allows
DecDiv100(a) ==
    IF a.coef = 0 THEN a
    ELSE IF a.coef % 100 = 0 THEN Dec(a.coef \div 100, a.exp)
    ELSE IF a.coef % 10 = 0 THEN Dec(a.coef \div 10, a.exp - 1)
    ELSE Dec(a.coef, a.exp - 2)

\* Decimal("0")
DecZero == Dec(0, 0)

(***************************************************************************)
(* Inputs of the model.                                                    *)
(***************************************************************************)
\* tax rates within [0, 100]: 0, 8.5 and 10
TaxRates == {Dec(0, 0), Dec(85, -1), Dec(10, 0)}

Days == 0..MaxDay

InvoiceStatus == {"draft", "sent", "paid", "overdue"}

\* LineItem objects that pass validation (quantity > 0, unit_rate > 0):
\* 2 x 1.5 and 1.5 x 0.10 under one identifier, 2 x 1.5 under another.
\* A str is the sequence of its characters.
LineItems ==
    {[id |-> 1, description |-> <<"W">>, quantity |-> Dec(2, 0), unit_rate |-> Dec(15, -1)],
     [id |-> 1, description |-> <<"W">>, quantity |-> Dec(15, -1), unit_rate |-> Dec(10, -2)],
     [id |-> 2, description |-> <<"W">>, quantity |-> Dec(2, 0), unit_rate |-> Dec(15, -1)]}

\* line-item identifiers (uuid4 values)
ItemIds == {item.id : item \in LineItems}

\* constructor arguments of LineItem: descriptions "", "W" and " ";
\* decimals -1, 0, 0.00, 0.5 and 2
Descriptions == {<<>>, <<"W">>, <<" ">>}
SignedDecimals == {Dec(-1, 0), Dec(0, 0), Dec(0, -2), Dec(5, -1), Dec(2, 0)}

(***************************************************************************)
(* app/models/line_item.py, app/models/invoice.py                          *)
(***************************************************************************)
\* the outcome of a constructor: the object built, or the error raised
Built(object) == [error |-> "", value |-> <<object>>]
Raised(error) == [error |-> error, value |-> <<>>]

\* LineItem.validate_positive
validate_positive(v) == ~(v.coef <= 0)

\* a LineItem that rejects negative numbers only
LineItem_accepts_zero(id, description, quantity, unit_rate) ==
    IF Len(description) >= 1 /\ quantity.coef >= 0 /\ unit_rate.coef >= 0
    THEN Built([id |-> id, description |-> description,
                quantity |-> quantity, unit_rate |-> unit_rate])
    ELSE Raised("ValidationError")

\* LineItem(id=..., description=..., quantity=..., unitRate=...): the Field
\* constraints min_length=1 and gt=0, then the field validator
LineItem(id, description, quantity, unit_rate) ==
    IF /\ Len(description) >= 1
       /\ quantity.coef > 0 /\ validate_positive(quantity)
       /\ unit_rate.coef > 0 /\ validate_positive(unit_rate)
    THEN Built([id |-> id, description |-> description,
                quantity |-> quantity, unit_rate |-> unit_rate])
    ELSE Raised("ValidationError")

\* LineItem.calculate_amount
calculate_amount(item) == DecMul(item.quantity, item.unit_rate)

\* sum(generator, start=Decimal("0")): a left fold over the first n items
RECURSIVE SumAmounts(_, _)
SumAmounts(items, n) ==
    IF n = 0 THEN DecZero
    ELSE DecAdd(SumAmounts(items, n - 1), calculate_amount(items[n]))

\* a subtotal that misses the first item of the list
calculate_subtotal_skips_first(i) ==
    IF i.line_items = <<>> THEN DecZero
    ELSE SumAmounts(Tail(i.line_items), Len(i.line_items) - 1)

\* Invoice.calculate_subtotal
calculate_subtotal(i) == SumAmounts(i.line_items, Len(i.line_items))

\* a tax that takes the rate as a fraction, not a percentage
calculate_tax_rate_as_fraction(i) == DecMul(calculate_subtotal(i), i.tax_rate)

\* Invoice.calculate_tax
calculate_tax(i) == DecMul(calculate_subtotal(i), DecDiv100(i.tax_rate))

\* Invoice.calculate_total
calculate_total(i) == DecAdd(calculate_subtotal(i), calculate_tax(i))

\* a removal that stops at the first match, as list.remove would
RECURSIVE FilterOutFirst(_, _)
FilterOutFirst(items, item_id) ==
    IF items = <<>> THEN <<>>
    ELSE IF Head(items).id # item_id
         THEN <<Head(items)>> \o FilterOutFirst(Tail(items), item_id)
         ELSE Tail(items)

\* a removal that takes the first item when the id matches none
FilterOutIdElseFirst(items, item_id) ==
    IF \A k \in DOMAIN items : items[k].id # item_id
    THEN IF items = <<>> THEN <<>> ELSE Tail(items)
    ELSE SelectSeq(items, LAMBDA x : x.id # item_id)

\* [item for item in self.line_items if item.id != item_id]
RECURSIVE FilterOutId(_, _)
FilterOutId(items, item_id) ==
    IF items = <<>> THEN <<>>
    ELSE IF Head(items).id # item_id
         THEN <<Head(items)>> \o FilterOutId(Tail(items), item_id)
         ELSE FilterOutId(Tail(items), item_id)

\* Invoice.validate_line_items_not_empty
validate_line_items_not_empty(v) == Len(v) # 0

\* Invoice.validate_dates
validate_dates(invoice_date, due_date) == ~(due_date < invoice_date)

\* a reading of the clock: not before the last one
ClockReadings(t) == {u \in {t, t + 1} : u <= MaxNow}

\* Invoice(...) with the default status and dates
NewInvoice(items, invoice_date, due_date, tax_rate, t) ==
    [line_items |-> items,
     invoice_date |-> invoice_date,
     due_date |-> due_date,
     tax_rate |-> tax_rate,
     status |-> "draft",
     sent_date |-> None,
     paid_date |-> None,
     updated_at |-> t,
     client |-> <<>>]

\* a keyword argument of a constructor, or the default of its field
Field(kwargs, name, default) ==
    IF name \in DOMAIN kwargs THEN kwargs[name] ELSE default

\* Invoice(**kwargs): a field validator runs on a supplied value, not on the
\* default of an omitted field; the model validator runs after the fields.
\* Optional[Client] is a sequence of no or one client.
Invoice(kwargs, t) ==
    IF /\ "line_items" \in DOMAIN kwargs
             => validate_line_items_not_empty(kwargs.line_items)
       /\ validate_dates(kwargs.invoice_date, kwargs.due_date)
    THEN Built([NewInvoice(Field(kwargs, "line_items", <<>>),
                           kwargs.invoice_date, kwargs.due_date,
                           Field(kwargs, "tax_rate", DecZero), t)
                   EXCEPT !.status = Field(kwargs, "status", @),
                          !.sent_date = Field(kwargs, "sent_date", @),
                          !.paid_date = Field(kwargs, "paid_date", @),
                          !.client = Field(kwargs, "client", @)])
    ELSE Raised("ValidationError")

\* keyword arguments of the Invoice the aggregate starts from: lineItems
\* omitted, empty or one item; invoiceDate today
InvoiceKwargs ==
    [invoice_date : {0}, due_date : Days, tax_rate : TaxRates]
      \cup [invoice_date : {0}, due_date : Days, tax_rate : TaxRates,
            line_items : {<<>>} \cup {<<a>> : a \in LineItems}]

DomainInit ==
    /\ now = 0
    /\ today = 0
    /\ \E kwargs \in InvoiceKwargs :
          /\ Invoice(kwargs, 0).error = ""
          /\ inv = Invoice(kwargs, 0).value[1]
    /\ lastOp = [op |-> "construct", removed |-> 0]

\* Invoice.add_line_item
add_line_item(item) ==
    /\ Len(inv.line_items) < MaxItems
    /\ \E t \in ClockReadings(now) :
          /\ inv' = [inv EXCEPT !.line_items = Append(@, item), !.updated_at = t]
          /\ now' = t
    /\ lastOp' = [op |-> "add_line_item", removed |-> 0]
    /\ UNCHANGED today
    /\ UNCHANGED <<storeVars, call, inflight>>

\* Invoice.remove_line_item
remove_line_item(item_id) ==
    /\ \E t \in ClockReadings(now) :
          /\ inv' = [inv EXCEPT !.line_items = FilterOutId(@, item_id),
                                !.updated_at = t]
          /\ now' = t
    /\ lastOp' = [op |-> "remove_line_item",
                 removed |-> Len(inv.line_items) - Len(inv'.line_items)]
    /\ UNCHANGED today
    /\ UNCHANGED <<storeVars, call, inflight>>

\* a status update that stamps the date on every call
update_status_restamps(new_status) ==
    /\ \E t1 \in ClockReadings(now) : \E t2 \in ClockReadings(t1) :
          IF new_status = "sent"
          THEN /\ inv' = [inv EXCEPT !.status = new_status, !.updated_at = t1,
                                     !.sent_date = t2]
               /\ now' = t2
          ELSE IF new_status = "paid"
          THEN /\ inv' = [inv EXCEPT !.status = new_status, !.updated_at = t1,
                                     !.paid_date = t2]
               /\ now' = t2
          ELSE /\ inv' = [inv EXCEPT !.status = new_status, !.updated_at = t1]
               /\ now' = t1
    /\ lastOp' = [op |-> "update_status", removed |-> 0]
    /\ UNCHANGED today
    /\ UNCHANGED <<storeVars, call, inflight>>

\* a status update that stamps sent_date as well when marking paid
update_status_paid_implies_sent(new_status) ==
    /\ \E t1 \in ClockReadings(now) : \E t2 \in ClockReadings(t1) :
          IF new_status = "sent" /\ inv.sent_date = None
          THEN /\ inv' = [inv EXCEPT !.status = new_status, !.updated_at = t1,
                                     !.sent_date = t2]
               /\ now' = t2
          ELSE IF new_status = "paid" /\ inv.paid_date = None
          THEN /\ inv' = [inv EXCEPT !.status = new_status, !.updated_at = t1,
                                     !.paid_date = t2,
                                     !.sent_date = IF @ = None THEN t2 ELSE @]
               /\ now' = t2
          ELSE /\ inv' = [inv EXCEPT !.status = new_status, !.updated_at = t1]
               /\ now' = t1
    /\ lastOp' = [op |-> "update_status", removed |-> 0]
    /\ UNCHANGED today
    /\ UNCHANGED <<storeVars, call, inflight>>

\* Invoice.update_status
update_status(new_status) ==
    /\ \E t1 \in ClockReadings(now) : \E t2 \in ClockReadings(t1) :
          IF new_status = "sent" /\ inv.sent_date = None
          THEN /\ inv' = [inv EXCEPT !.status = new_status, !.updated_at = t1,
                                     !.sent_date = t2]
               /\ now' = t2
          ELSE IF new_status = "paid" /\ inv.paid_date = None
          THEN /\ inv' = [inv EXCEPT !.status = new_status, !.updated_at = t1,
                                     !.paid_date = t2]
               /\ now' = t2
          ELSE /\ inv' = [inv EXCEPT !.status = new_status, !.updated_at = t1]
               /\ now' = t1
    /\ lastOp' = [op |-> "update_status", removed |-> 0]
    /\ UNCHANGED today
    /\ UNCHANGED <<storeVars, call, inflight>>

\* an overdue check that fires on the due date itself
check_overdue_on_due_date ==
    /\ IF inv.status = "sent" /\ today >= inv.due_date
       THEN \E t \in ClockReadings(now) :
               /\ inv' = [inv EXCEPT !.status = "overdue", !.updated_at = t]
               /\ now' = t
       ELSE UNCHANGED <<inv, now>>
    /\ lastOp' = [op |-> "check_overdue", removed |-> 0]
    /\ UNCHANGED today
    /\ UNCHANGED <<storeVars, call, inflight>>

\* Invoice.check_overdue
check_overdue ==
    /\ IF inv.status = "sent" /\ today > inv.due_date
       THEN \E t \in ClockReadings(now) :
               /\ inv' = [inv EXCEPT !.status = "overdue", !.updated_at = t]
               /\ now' = t
       ELSE UNCHANGED <<inv, now>>
    /\ lastOp' = [op |-> "check_overdue", removed |-> 0]
    /\ UNCHANGED today
    /\ UNCHANGED <<storeVars, call, inflight>>

(***************************************************************************)
(* app/services/pdf_export.py.  The document is the list of flowables      *)
(* handed to doc.build; a flowable records the section that made it.  A    *)
(* text is the sequence of its parts.  Styles, colours and column widths   *)
(* are left out, as are the invoice number and the formatted dates.        *)
(***************************************************************************)
Paragraph(section, text) == [section |-> section, kind |-> "Paragraph", data |-> text]
Table(section, data) == [section |-> section, kind |-> "Table", data |-> data]
Spacer == [section |-> "spacer", kind |-> "Spacer", data |-> <<>>]

\* str.upper on the status values
Upper(status_str) ==
    CASE status_str = "draft" -> "DRAFT"
      [] status_str = "sent" -> "SENT"
      [] status_str = "paid" -> "PAID"
      [] status_str = "overdue" -> "OVERDUE"

\* f"{d:.2f}" on a non-negative Decimal: the value in hundredths, rounded
\* half to even as the decimal context rounds
Format2f(d) ==
    IF d.exp >= -2 THEN d.coef * Pow10(d.exp + 2)
    ELSE LET unit == Pow10(-2 - d.exp)
             q == d.coef \div unit
             r == d.coef % unit
         IN  IF 2 * r > unit \/ (2 * r = unit /\ q % 2 = 1) THEN q + 1 ELSE q

\* PDFExportService._create_header
create_header(invoice) ==
    <<Paragraph("header", <<"INVOICE">>),
      Paragraph("header", <<"Invoice Number:">>),
      Paragraph("header", <<"Invoice Date:">>),
      Paragraph("header", <<"Due Date:">>),
      Paragraph("header", <<"Status:", Upper(invoice.status)>>)>>

\* a client section that prints its heading without a client
create_client_section_heading_always(invoice) ==
    IF invoice.client = <<>> THEN <<Paragraph("client", <<"Bill To:">>)>>
    ELSE LET client == invoice.client[1]
         IN  <<Paragraph("client", <<"Bill To:">>),
               Paragraph("client", <<client.name>>),
               Paragraph("client", <<client.street>>),
               Paragraph("client", <<client.city, ", ", client.state, " ", client.zip_code>>),
               Paragraph("client", <<client.country>>),
               Paragraph("client", <<"Email: ", client.email>>),
               Paragraph("client", <<"Phone: ", client.phone>>)>>

\* PDFExportService._create_client_section
create_client_section(invoice) ==
    IF invoice.client = <<>> THEN <<>>
    ELSE LET client == invoice.client[1]
         IN  <<Paragraph("client", <<"Bill To:">>),
               Paragraph("client", <<client.name>>),
               Paragraph("client", <<client.street>>),
               Paragraph("client", <<client.city, ", ", client.state, " ", client.zip_code>>),
               Paragraph("client", <<client.country>>),
               Paragraph("client", <<"Email: ", client.email>>),
               Paragraph("client", <<"Phone: ", client.phone>>)>>

\* a line-item table that is left out when the invoice has no line item
create_line_items_table_omits_empty(invoice) ==
    IF invoice.line_items = <<>> THEN <<>>
    ELSE <<Table("line_items",
                 <<(<<"Description", "Quantity", "Unit Rate", "Amount">>)>>
                    \o [k \in DOMAIN invoice.line_items |->
                          <<invoice.line_items[k].description,
                            Format2f(invoice.line_items[k].quantity),
                            <<"$", Format2f(invoice.line_items[k].unit_rate)>>,
                            <<"$", Format2f(calculate_amount(invoice.line_items[k]))>> >>])>>

\* PDFExportService._create_line_items_table: the header row, then one row
\* per line item
create_line_items_table(invoice) ==
    <<Table("line_items",
            <<(<<"Description", "Quantity", "Unit Rate", "Amount">>)>>
               \o [k \in DOMAIN invoice.line_items |->
                     <<invoice.line_items[k].description,
                       Format2f(invoice.line_items[k].quantity),
                       <<"$", Format2f(invoice.line_items[k].unit_rate)>>,
                       <<"$", Format2f(calculate_amount(invoice.line_items[k]))>> >>])>>

\* PDFExportService._create_totals_section
create_totals_section(invoice) ==
    <<Table("totals",
            <<(<<"Subtotal:", <<"$", Format2f(calculate_subtotal(invoice))>> >>),
              <<(<<"Tax (", invoice.tax_rate, "%):">>),
                <<"$", Format2f(calculate_tax(invoice))>> >>,
              <<"Total:", <<"$", Format2f(calculate_total(invoice))>> >> >>)>>

\* PDFExportService._generate_pdf: the elements built by doc.build
generate_pdf(invoice) ==
    create_header(invoice) \o <<Spacer>>
       \o create_client_section(invoice) \o <<Spacer>>
       \o create_line_items_table(invoice) \o <<Spacer>>
       \o create_totals_section(invoice)

\* PDFExportService.export_invoice
export_invoice(invoice) == Built(generate_pdf(invoice))

\* the calendar moves on between calls
NextDay ==
    /\ today < MaxDay
    /\ today' = today + 1
    /\ lastOp' = [op |-> "next_day", removed |-> 0]
    /\ UNCHANGED <<inv, now>>
    /\ UNCHANGED <<storeVars, call, inflight>>

(***************************************************************************)
(* app/api/clients.py, app/api/invoices.py over the table store.  A row is *)
(* a record; a table is the set of its rows; a query filters with .eq().   *)
(* The invoices and clients tables are sets of rows; line_items is the     *)
(* list of its rows in the order they were inserted, the order in which a  *)
(* select embeds them.                                                     *)
(***************************************************************************)
Users == {"u1", "u2"}
\* the ids a request may name: stored, not yet stored or deleted again
ClientIdsApi == 1..MaxClients
InvoiceIdsApi == 1..MaxInvoices

\* an HTTP response: the status code and the error detail, without a body
Reply(op, code, detail) == [op |-> op, code |-> code, detail |-> detail, body |-> <<>>]

\* an HTTP response that returns a body
ReplyBody(op, code, body) == [op |-> op, code |-> code, detail |-> "", body |-> <<body>>]

\* str(Decimal): the literal of the number, its digits and its exponent;
\* Decimal(str) reads the literal back
str(d) == <<"Decimal", d.coef, d.exp>>
Decimal(text) == Dec(text[2], text[3])

\* date.isoformat() and datetime.fromisoformat(text).date()
isoformat(day) == <<"date", day>>
fromisoformat(text) == text[2]

StoreInit ==
    /\ clients = {}
    /\ invoices = {}
    /\ line_items = <<>>
    /\ nextId = [clients |-> 1, invoices |-> 1, line_items |-> 1]
    /\ response = Reply("none", 0, "")

\* datetime.utcnow() in a handler: later than the reading of the request
\* before; a second reading in the same handler is not before the first
FirstReading(t) == {u \in {t + 1} : u <= MaxApiClock}
SecondReading(t) == {u \in {t, t + 1} : u <= MaxApiClock}


\* .eq("id", ...).eq("user_id", ...) on a table
RowsOf(table, id, user) == {r \in table : r.id = id /\ r.user_id = user}

\* the columns of a client row written from a request
ClientColumns ==
    {"name", "email", "street", "city", "state", "zip_code", "country", "phone"}

\* create_client
create_client(request, user) ==
    /\ nextId.clients <= MaxClients
    /\ clients' = clients \cup
          {[id |-> nextId.clients,
            user_id |-> user,
            name |-> request.name,
            email |-> request.email,
            street |-> request.street,
            city |-> request.city,
            state |-> request.state,
            zip_code |-> request.zip_code,
            country |-> request.country,
            phone |-> request.phone]}
    /\ nextId' = [nextId EXCEPT !.clients = @ + 1]
    /\ response' = Reply("create_client", 201, "")
    /\ UNCHANGED <<invoices, line_items, now>>
    /\ UNCHANGED <<domainVars, call, inflight>>

\* get_client
get_client(client_id, user) ==
    /\ IF RowsOf(clients, client_id, user) = {}
       THEN response' = Reply("get_client", 404, "Client not found")
       ELSE response' = Reply("get_client", 200, "")
    /\ UNCHANGED <<clients, invoices, line_items, nextId, now>>
    /\ UNCHANGED <<domainVars, call, inflight>>

\* a row with the supplied columns overwritten
Patched(row, update_data) ==
    [c \in DOMAIN row |-> IF c \in DOMAIN update_data THEN update_data[c] ELSE row[c]]

\* {k: v for k, v in request.model_dump(exclude_unset=True).items()
\*  if v is not None}.  A request maps each field it carries to no value
\* (null) or one value.
NotNone(request) ==
    [k \in {c \in DOMAIN request : request[c] # <<>>} |-> request[k][1]]

\* an update that writes the request as the whole row: a field the request
\* does not carry is blanked
update_client_overwrites_row(client_id, request, user) ==
    /\ IF DOMAIN NotNone(request) = {}
       THEN /\ response' = Reply("update_client", 400, "No fields to update")
            /\ UNCHANGED clients
       ELSE IF RowsOf(clients, client_id, user) = {}
       THEN /\ response' = Reply("update_client", 404, "Client not found")
            /\ UNCHANGED clients
       ELSE /\ clients' =
                  (clients \ RowsOf(clients, client_id, user))
                     \cup {[c \in DOMAIN r |->
                               IF c \in DOMAIN NotNone(request) THEN NotNone(request)[c]
                               ELSE IF c \in ClientColumns THEN "" ELSE r[c]] :
                              r \in RowsOf(clients, client_id, user)}
            /\ response' = Reply("update_client", 200, "")
    /\ UNCHANGED <<invoices, line_items, nextId, now>>
    /\ UNCHANGED <<domainVars, call, inflight>>

\* update_client
update_client(client_id, request, user) ==
    /\ IF DOMAIN NotNone(request) = {}
       THEN /\ response' = Reply("update_client", 400, "No fields to update")
            /\ UNCHANGED clients
       ELSE IF RowsOf(clients, client_id, user) = {}
       THEN /\ response' = Reply("update_client", 404, "Client not found")
            /\ UNCHANGED clients
       ELSE /\ clients' =
                  (clients \ RowsOf(clients, client_id, user))
                     \cup {Patched(r, NotNone(request)) :
                              r \in RowsOf(clients, client_id, user)}
            /\ response' = Reply("update_client", 200, "")
    /\ UNCHANGED <<invoices, line_items, nextId, now>>
    /\ UNCHANGED <<domainVars, call, inflight>>

\* a deletion that does not look for invoices first
delete_client_unguarded(client_id, user) ==
    /\ IF RowsOf(clients, client_id, user) = {}
       THEN /\ response' = Reply("delete_client", 404, "Client not found")
            /\ UNCHANGED clients
       ELSE /\ clients' = clients \ RowsOf(clients, client_id, user)
            /\ response' = Reply("delete_client", 204, "")
    /\ UNCHANGED <<invoices, line_items, nextId, now>>
    /\ UNCHANGED <<domainVars, call, inflight>>

\* delete_client
delete_client(client_id, user) ==
    /\ IF {i \in invoices : i.client_id = client_id /\ i.user_id = user} # {}
       THEN /\ response' = Reply("delete_client", 400,
                                 "Cannot delete client with associated invoices")
            /\ UNCHANGED clients
       ELSE IF RowsOf(clients, client_id, user) = {}
       THEN /\ response' = Reply("delete_client", 404, "Client not found")
            /\ UNCHANGED clients
       ELSE /\ clients' = clients \ RowsOf(clients, client_id, user)
            /\ response' = Reply("delete_client", 204, "")
    /\ UNCHANGED <<invoices, line_items, nextId, now>>
    /\ UNCHANGED <<domainVars, call, inflight>>

\* the rows inserted into line_items for a request's items, ids from first on
LineItemRows(invoice_id, items, first) ==
    [k \in DOMAIN items |->
       [id |-> first + k - 1,
        invoice_id |-> invoice_id,
        description |-> items[k].description,
        quantity |-> str(items[k].quantity),
        unit_rate |-> str(items[k].unit_rate)]]

\* the rows of the line_items table that belong to an invoice, and those
\* that do not, in the order the store holds them
OfInvoice(lis, invoice_id) == SelectSeq(lis, LAMBDA l : l.invoice_id = invoice_id)
NotOfInvoice(lis, invoice_id) == SelectSeq(lis, LAMBDA l : l.invoice_id # invoice_id)

\* clients(*) embedded in a select on invoices: the client row the invoice
\* references, if it is stored
EmbeddedClient(cls, client_id) ==
    IF {c \in cls : c.id = client_id} = {} THEN <<>>
    ELSE <<CHOOSE c \in cls : c.id = client_id>>

\* .select("*, line_items(*), clients(*)").eq("id", ...).eq("user_id", ...):
\* each matching invoice row with its line-item rows and its client row
SelectInvoice(invoice_id, user, invs, lis, cls) ==
    {r @@ [line_items |-> OfInvoice(lis, r.id),
           clients |-> EmbeddedClient(cls, r.client_id)] :
       r \in RowsOf(invs, invoice_id, user)}

\* a running subtotal that is assigned, not accumulated: the last row's amount
RowSubtotalLastOnly(rows, n) ==
    IF n = 0 THEN DecZero
    ELSE DecMul(Decimal(rows[n].quantity), Decimal(rows[n].unit_rate))

\* the running subtotal of _transform_invoice_response over the first n rows
RECURSIVE RowSubtotal(_, _)
RowSubtotal(rows, n) ==
    IF n = 0 THEN DecZero
    ELSE DecAdd(RowSubtotal(rows, n - 1),
                DecMul(Decimal(rows[n].quantity), Decimal(rows[n].unit_rate)))

\* _transform_invoice_response
transform_invoice_response(invoice_data) ==
    LET subtotal == RowSubtotal(invoice_data.line_items, Len(invoice_data.line_items))
        tax == DecMul(subtotal, DecDiv100(Decimal(invoice_data.tax_rate)))
        total == DecAdd(subtotal, tax)
    IN  [id |-> invoice_data.id,
         userId |-> invoice_data.user_id,
         clientId |-> invoice_data.client_id,
         invoiceNumber |-> invoice_data.invoice_number,
         invoiceDate |-> invoice_data.invoice_date,
         dueDate |-> invoice_data.due_date,
         taxRate |-> invoice_data.tax_rate,
         status |-> invoice_data.status,
         sentDate |-> invoice_data.sent_date,
         paidDate |-> invoice_data.paid_date,
         updatedAt |-> invoice_data.updated_at,
         lineItems |-> [k \in DOMAIN invoice_data.line_items |->
                          [id |-> invoice_data.line_items[k].id,
                           invoiceId |-> invoice_data.line_items[k].invoice_id,
                           description |-> invoice_data.line_items[k].description,
                           quantity |-> invoice_data.line_items[k].quantity,
                           unitRate |-> invoice_data.line_items[k].unit_rate]],
         client |-> [k \in DOMAIN invoice_data.clients |->
                       [c \in {"id"} \cup ClientColumns |-> invoice_data.clients[k][c]]],
         subtotal |-> str(subtotal),
         tax |-> str(tax),
         total |-> str(total)]

\* the response of get_invoice read from the tables given, under the name
\* and success code of the handler that returns it
get_invoice_response(op, code, invoice_id, user, invs, lis, cls) ==
    LET data == SelectInvoice(invoice_id, user, invs, lis, cls)
    IN  IF data = {}
        THEN Reply(op, 404, "Invoice not found")
        ELSE ReplyBody(op, code, transform_invoice_response(CHOOSE d \in data : TRUE))

\* get_invoice
get_invoice(invoice_id, user) ==
    /\ response' = get_invoice_response("get_invoice", 200, invoice_id, user,
                                        invoices, line_items, clients)
    /\ UNCHANGED <<clients, invoices, line_items, nextId, now>>
    /\ UNCHANGED <<domainVars, call, inflight>>

\* a creation that stores the status of the request body when it has one
create_invoice_takes_status(request, user) ==
    /\ IF request.due_date < request.invoice_date
       THEN /\ response' = Reply("create_invoice", 400,
                                 "Due date cannot be before invoice date")
            /\ UNCHANGED <<invoices, line_items, nextId, now>>
       ELSE IF request.line_items = <<>>
       THEN /\ response' = Reply("create_invoice", 400,
                                 "At least one line item is required")
            /\ UNCHANGED <<invoices, line_items, nextId, now>>
       ELSE \E t \in FirstReading(now) :
               /\ nextId.invoices <= MaxInvoices
               /\ nextId.line_items + Len(request.line_items) - 1 <= MaxLineItemRows
               /\ invoices' = invoices \cup
                     {[id |-> nextId.invoices,
                       user_id |-> user,
                       client_id |-> request.client_id,
                       invoice_number |-> request.invoice_number,
                       invoice_date |-> isoformat(request.invoice_date),
                       due_date |-> isoformat(request.due_date),
                       tax_rate |-> str(request.tax_rate),
                       status |-> Field(request, "status", "draft"),
                       sent_date |-> None,
                       paid_date |-> None,
                       updated_at |-> t]}
               /\ line_items' = line_items \o
                     LineItemRows(nextId.invoices, request.line_items, nextId.line_items)
               /\ nextId' = [nextId EXCEPT !.invoices = @ + 1,
                                           !.line_items = @ + Len(request.line_items)]
               /\ now' = t
               /\ response' = get_invoice_response("create_invoice", 201,
                                                   nextId.invoices, user,
                                                   invoices', line_items', clients)
    /\ UNCHANGED clients
    /\ UNCHANGED <<domainVars, call, inflight>>

\* create_invoice
create_invoice(request, user) ==
    /\ IF request.due_date < request.invoice_date
       THEN /\ response' = Reply("create_invoice", 400,
                                 "Due date cannot be before invoice date")
            /\ UNCHANGED <<invoices, line_items, nextId, now>>
       ELSE IF request.line_items = <<>>
       THEN /\ response' = Reply("create_invoice", 400,
                                 "At least one line item is required")
            /\ UNCHANGED <<invoices, line_items, nextId, now>>
       ELSE \E t \in FirstReading(now) :
               /\ nextId.invoices <= MaxInvoices
               /\ nextId.line_items + Len(request.line_items) - 1 <= MaxLineItemRows
               /\ invoices' = invoices \cup
                     {[id |-> nextId.invoices,
                       user_id |-> user,
                       client_id |-> request.client_id,
                       invoice_number |-> request.invoice_number,
                       invoice_date |-> isoformat(request.invoice_date),
                       due_date |-> isoformat(request.due_date),
                       tax_rate |-> str(request.tax_rate),
                       status |-> "draft",
                       sent_date |-> None,
                       paid_date |-> None,
                       updated_at |-> t]}
               /\ line_items' = line_items \o
                     LineItemRows(nextId.invoices, request.line_items, nextId.line_items)
               /\ nextId' = [nextId EXCEPT !.invoices = @ + 1,
                                           !.line_items = @ + Len(request.line_items)]
               /\ now' = t
               /\ response' = get_invoice_response("create_invoice", 201,
                                                   nextId.invoices, user,
                                                   invoices', line_items', clients)
    /\ UNCHANGED clients
    /\ UNCHANGED <<domainVars, call, inflight>>

\* _convert_to_domain_model: the LineItem and Client objects of the embedded
\* rows, then the Invoice; a validation error of a constructor propagates
convert_to_domain_model(invoice_data, t) ==
    LET items == [k \in DOMAIN invoice_data.line_items |->
                    LineItem(invoice_data.line_items[k].id,
                             invoice_data.line_items[k].description,
                             Decimal(invoice_data.line_items[k].quantity),
                             Decimal(invoice_data.line_items[k].unit_rate))]
        client == [k \in DOMAIN invoice_data.clients |->
                     [c \in {"id", "user_id"} \cup ClientColumns |->
                         invoice_data.clients[k][c]]]
    IN  IF \E k \in DOMAIN items : items[k].error # ""
        THEN Raised("ValidationError")
        ELSE Invoice([invoice_date |-> fromisoformat(invoice_data.invoice_date),
                      due_date |-> fromisoformat(invoice_data.due_date),
                      tax_rate |-> Decimal(invoice_data.tax_rate),
                      status |-> invoice_data.status,
                      sent_date |-> invoice_data.sent_date,
                      paid_date |-> invoice_data.paid_date,
                      line_items |-> [k \in DOMAIN items |-> items[k].value[1]],
                      client |-> client], t)

\* export_invoice_pdf
export_invoice_pdf(invoice_id, user) ==
    /\ LET data == SelectInvoice(invoice_id, user, invoices, line_items, clients)
           invoice == convert_to_domain_model(CHOOSE d \in data : TRUE, now)
       IN  IF data = {}
           THEN response' = Reply("export_invoice_pdf", 404, "Invoice not found")
           ELSE IF invoice.error # ""
           THEN response' = Reply("export_invoice_pdf", 500, invoice.error)
           ELSE response' = ReplyBody("export_invoice_pdf", 200,
                                      export_invoice(invoice.value[1]).value[1])
    /\ UNCHANGED <<clients, invoices, line_items, nextId, now>>
    /\ UNCHANGED <<domainVars, call, inflight>>

\* the columns update_invoice writes from the request
UpdateColumns ==
    {"client_id", "invoice_number", "invoice_date", "due_date", "tax_rate", "status"}

\* update_data as update_invoice fills it from the fields the request carries
UpdateData(request) ==
    [c \in DOMAIN request \cap UpdateColumns |->
        IF c \in {"invoice_date", "due_date"} THEN isoformat(request[c])
        ELSE IF c = "tax_rate" THEN str(request[c])
        ELSE request[c]]

\* a date of the check that falls back on the first day, not on the stored
\* date, when the request does not carry it
RequestDateOnly(request, existing_invoice, column) ==
    IF column \in DOMAIN request THEN request[column] ELSE 0

\* request.invoice_date if request.invoice_date else
\* datetime.fromisoformat(existing_invoice["invoice_date"]).date()
EffectiveDate(request, existing_invoice, column) ==
    IF column \in DOMAIN request
    THEN request[column]
    ELSE fromisoformat(existing_invoice[column])

\* line items inserted beside the rows already stored
AppendedLineItems(invoice_id, items, first) ==
    line_items \o LineItemRows(invoice_id, items, first)

\* .delete().eq("invoice_id", ...) on line_items, then the insert of the
\* request's items
ReplacedLineItems(invoice_id, items, first) ==
    NotOfInvoice(line_items, invoice_id) \o LineItemRows(invoice_id, items, first)

\* update_invoice.  A request is a function from the supplied (non-null)
\* fields to their values.
update_invoice(invoice_id, request, user) ==
    /\ IF RowsOf(invoices, invoice_id, user) = {}
       THEN /\ response' = Reply("update_invoice", 404, "Invoice not found")
            /\ UNCHANGED <<invoices, line_items, nextId, now>>
       ELSE
         LET existing_invoice == CHOOSE r \in RowsOf(invoices, invoice_id, user) : TRUE
             update_data == UpdateData(request)
             invoice_date == EffectiveDate(request, existing_invoice, "invoice_date")
             due_date == EffectiveDate(request, existing_invoice, "due_date")
         IN
         IF due_date < invoice_date
         THEN /\ response' = Reply("update_invoice", 400,
                                   "Due date cannot be before invoice date")
              /\ UNCHANGED <<invoices, line_items, nextId, now>>
         ELSE
           /\ IF DOMAIN update_data # {}
              THEN \E t \in FirstReading(now) :
                      /\ invoices' =
                            (invoices \ {existing_invoice})
                               \cup {Patched(existing_invoice,
                                             update_data @@ [updated_at |-> t])}
                      /\ now' = t
              ELSE UNCHANGED <<invoices, now>>
           /\ IF "line_items" \in DOMAIN request
              THEN IF request.line_items = <<>>
                   THEN /\ response' = Reply("update_invoice", 400,
                                             "At least one line item is required")
                        /\ UNCHANGED <<line_items, nextId>>
                   ELSE /\ nextId.line_items + Len(request.line_items) - 1
                              <= MaxLineItemRows
                        /\ line_items' =
                             ReplacedLineItems(invoice_id, request.line_items,
                                               nextId.line_items)
                        /\ nextId' = [nextId EXCEPT
                                         !.line_items = @ + Len(request.line_items)]
                        /\ response' = get_invoice_response(
                                           "update_invoice", 200, invoice_id, user,
                                           invoices', line_items', clients)
              ELSE /\ UNCHANGED <<line_items, nextId>>
                   /\ response' = get_invoice_response(
                                      "update_invoice", 200, invoice_id, user,
                                      invoices', line_items', clients)
    /\ UNCHANGED clients
    /\ UNCHANGED <<domainVars, call, inflight>>

\* the line_items table after the store deleted an invoice row: the rows of
\* the invoice go with it (a line item is destroyed with its owning invoice)
OnDeleteCascade(invoice_id) == NotOfInvoice(line_items, invoice_id)

\* delete_invoice
delete_invoice(invoice_id, user) ==
    /\ IF RowsOf(invoices, invoice_id, user) = {}
       THEN /\ response' = Reply("delete_invoice", 404, "Invoice not found")
            /\ UNCHANGED <<invoices, line_items>>
       ELSE /\ invoices' = invoices \ RowsOf(invoices, invoice_id, user)
            /\ line_items' = OnDeleteCascade(invoice_id)
            /\ response' = Reply("delete_invoice", 204, "")
    /\ UNCHANGED <<clients, nextId, now>>
    /\ UNCHANGED <<domainVars, call, inflight>>

\* _update_invoice_status
update_invoice_status(op, invoice_id, new_status, date_field, user) ==
    /\ IF RowsOf(invoices, invoice_id, user) = {}
       THEN /\ response' = Reply(op, 404, "Invoice not found")
            /\ UNCHANGED <<invoices, now>>
       ELSE \E t1 \in FirstReading(now) : \E t2 \in SecondReading(t1) :
               /\ invoices' =
                     (invoices \ RowsOf(invoices, invoice_id, user))
                        \cup {[r EXCEPT !.status = new_status,
                                        ![date_field] = t1,
                                        !.updated_at = t2] :
                                 r \in RowsOf(invoices, invoice_id, user)}
               /\ now' = t2
               /\ response' = get_invoice_response(op, 200, invoice_id, user,
                                                   invoices', line_items, clients)
    /\ UNCHANGED <<clients, line_items, nextId>>
    /\ UNCHANGED <<domainVars, call, inflight>>

\* mark_invoice_sent
mark_invoice_sent(invoice_id, user) ==
    update_invoice_status("mark_invoice_sent", invoice_id, "sent", "sent_date", user)

\* mark_invoice_paid
mark_invoice_paid(invoice_id, user) ==
    update_invoice_status("mark_invoice_paid", invoice_id, "paid", "paid_date", user)

\* InvoiceCreateRequest bodies of ApiSpec: any client id, due on day 0
CreateRequests ==
    [client_id : ClientIdsApi, invoice_number : {"INV-1"},
     invoice_date : Days, due_date : {0},
     tax_rate : {Dec(85, -1)},
     line_items : {<<[description |-> <<"W">>,
                      quantity |-> Dec(2, 0), unit_rate |-> Dec(15, -1)]>>}]

\* InvoiceUpdateRequest bodies of ApiSpec: no field, a client id or a status
UpdateRequests ==
    {<<>>}
      \cup {[c \in {"client_id"} |-> v] : v \in ClientIdsApi}
      \cup {[c \in {"status"} |-> v] : v \in InvoiceStatus}

\* ClientCreateRequest bodies
ClientCreateRequests ==
    {[name |-> "Acme", email |-> "a@x.io", street |-> "1 Main St", city |-> "Pune",
      state |-> "MH", zip_code |-> "411001", country |-> "IN", phone |-> "555"]}

CreateClient ==
    \E request \in ClientCreateRequests, user \in Users : create_client(request, user)
DeleteClient == \E client_id \in ClientIdsApi, user \in Users : delete_client(client_id, user)
CreateInvoice == \E request \in CreateRequests, user \in Users : create_invoice(request, user)
UpdateInvoice ==
    \E invoice_id \in InvoiceIdsApi, request \in UpdateRequests, user \in Users :
        update_invoice(invoice_id, request, user)
DeleteInvoice == \E invoice_id \in InvoiceIdsApi, user \in Users : delete_invoice(invoice_id, user)
MarkInvoiceSent == \E invoice_id \in InvoiceIdsApi, user \in Users : mark_invoice_sent(invoice_id, user)
MarkInvoicePaid == \E invoice_id \in InvoiceIdsApi, user \in Users : mark_invoice_paid(invoice_id, user)

Init == DomainInit /\ StoreInit /\ call = NoCall /\ inflight = [w \in Workers |-> Idle]

AddLineItem == \E item \in LineItems : add_line_item(item)
RemoveLineItem == \E item_id \in ItemIds : remove_line_item(item_id)
UpdateStatus == \E new_status \in InvoiceStatus : update_status(new_status)
CheckOverdue == check_overdue

Next ==
    \/ AddLineItem
    \/ RemoveLineItem
    \/ UpdateStatus
    \/ CheckOverdue
    \/ NextDay

Spec == Init /\ [][Next]_vars

ApiNext ==
    \/ CreateClient
    \/ DeleteClient
    \/ CreateInvoice
    \/ UpdateInvoice
    \/ DeleteInvoice
    \/ MarkInvoiceSent
    \/ MarkInvoicePaid

\* the handlers, one request at a time, beside one fixed in-memory invoice
ApiInit ==
    /\ now = 0
    /\ today = 0
    /\ inv = NewInvoice(<<[id |-> 1, description |-> <<"W">>,
                           quantity |-> Dec(2, 0), unit_rate |-> Dec(15, -1)]>>,
                        0, 0, DecZero, 0)
    /\ lastOp = [op |-> "construct", removed |-> 0]
    /\ StoreInit
    /\ call = NoCall
    /\ inflight = [w \in Workers |-> Idle]

ApiSpec == ApiInit /\ [][ApiNext]_vars

(***************************************************************************)
(* ClientSpec: the client endpoints alone.                                 *)
(***************************************************************************)
\* ClientUpdateRequest bodies: no field, a null only, one field, a field
\* beside a null, another field, two fields
ClientUpdateRequests ==
    {<<>>,
     [name |-> <<>>],
     [name |-> <<"Bolt">>],
     [name |-> <<>>, phone |-> <<"777">>],
     [city |-> <<"Oslo">>],
     [email |-> <<"b@x.io">>, zip_code |-> <<"10001">>]}

GetClient == \E client_id \in ClientIdsApi, user \in Users : get_client(client_id, user)
UpdateClient ==
    \E client_id \in ClientIdsApi, request \in ClientUpdateRequests, user \in Users :
        update_client(client_id, request, user)

ClientNext ==
    \/ CreateClient
    \/ GetClient
    \/ UpdateClient
    \/ DeleteClient

ClientSpec == ApiInit /\ [][ClientNext]_vars

(***************************************************************************)
(* EditSpec: one user creates and edits invoices (dates, tax rate, line    *)
(* items) and reads them back.                                             *)
(***************************************************************************)
\* line items of a request: 2 x 1.5, 1.5 x 0.10 and 1 x 0.25
ItemW == [description |-> <<"W">>, quantity |-> Dec(2, 0), unit_rate |-> Dec(15, -1)]
ItemH == [description |-> <<"H">>, quantity |-> Dec(15, -1), unit_rate |-> Dec(10, -2)]
ItemD == [description |-> <<"D">>, quantity |-> Dec(1, 0), unit_rate |-> Dec(25, -2)]

\* InvoiceCreateRequest bodies: any pair of dates, one item or two; a status
\* in the body is no field of the request model
EditCreateRequests ==
    [client_id : {1}, invoice_number : {"INV-1"},
     invoice_date : Days, due_date : Days, tax_rate : {Dec(85, -1)},
     line_items : {<<ItemW>>, <<ItemW, ItemH>>}]
      \cup [client_id : {1}, invoice_number : {"INV-1"},
            invoice_date : {0}, due_date : {0}, tax_rate : {Dec(85, -1)},
            line_items : {<<ItemW>>}, status : {"paid"}]

\* InvoiceUpdateRequest bodies: one date or both, a tax rate, a line-item
\* list (empty, one item, two items), a date beside a line-item list
EditUpdateRequests ==
    {[c \in {"invoice_date"} |-> d] : d \in Days}
      \cup {[c \in {"due_date"} |-> d] : d \in Days}
      \cup [invoice_date : Days, due_date : Days]
      \cup {[c \in {"tax_rate"} |-> Dec(10, 0)]}
      \cup {[c \in {"line_items"} |-> l] : l \in {<<>>, <<ItemD>>, <<ItemH, ItemD>>}}
      \cup [due_date : Days, line_items : {<<>>, <<ItemD>>}]

EditCreateInvoice == \E request \in EditCreateRequests : create_invoice(request, "u1")
EditUpdateInvoice ==
    \E invoice_id \in InvoiceIdsApi, request \in EditUpdateRequests :
        update_invoice(invoice_id, request, "u1")
EditGetInvoice == \E invoice_id \in InvoiceIdsApi : get_invoice(invoice_id, "u1")

EditNext ==
    \/ EditCreateInvoice
    \/ EditUpdateInvoice
    \/ EditGetInvoice

EditSpec == ApiInit /\ [][EditNext]_vars

\* CreateSpec: invoices are created and read back, beside any in-memory
\* invoice the constructor builds
CreateNext ==
    \/ EditCreateInvoice
    \/ EditGetInvoice

CreateSpec == Init /\ [][CreateNext]_vars

(***************************************************************************)
(* AccessSpec: every client and invoice endpoint, two users.               *)
(***************************************************************************)
GetInvoice == \E invoice_id \in InvoiceIdsApi, user \in Users : get_invoice(invoice_id, user)
ExportInvoicePdf ==
    \E invoice_id \in InvoiceIdsApi, user \in Users : export_invoice_pdf(invoice_id, user)
\* update_client with no field or with a name
RenameClient ==
    \E client_id \in ClientIdsApi, request \in {<<>>, [name |-> <<"Bolt">>]}, user \in Users :
        update_client(client_id, request, user)
\* update_invoice with a body of ApiSpec or with an invoice number alone
AccessUpdateInvoice ==
    \E invoice_id \in InvoiceIdsApi,
       request \in UpdateRequests \cup {[c \in {"invoice_number"} |-> "INV-9"]},
       user \in Users :
        update_invoice(invoice_id, request, user)

AccessNext ==
    \/ CreateClient
    \/ GetClient
    \/ RenameClient
    \/ DeleteClient
    \/ CreateInvoice
    \/ GetInvoice
    \/ AccessUpdateInvoice
    \/ DeleteInvoice
    \/ MarkInvoiceSent
    \/ MarkInvoicePaid
    \/ ExportInvoicePdf

AccessSpec == ApiInit /\ [][AccessNext]_vars

(***************************************************************************)
(* The handlers as the store sees them: a handler is a sequence of calls   *)
(* to the store (.execute()), and between two of its calls another server  *)
(* process may make calls of its own.  A step below is one store call      *)
(* together with the handler's own computation up to its next store call.  *)
(* The atomic handlers above are these steps run without interruption.     *)
(***************************************************************************)
\* line-item rows the requests in flight have yet to insert
PendingRows == inflight[1].rows + inflight[2].rows

\* whether the identifiers of the model suffice for a request that inserts
\* that many line-item rows
Admits(rows) == nextId.line_items + PendingRows + rows - 1 <= MaxLineItemRows

\* delete_client, line 116-118: the invoice check
delete_client_check(w, client_id, user) ==
    /\ inflight[w] = Idle
    /\ IF {i \in invoices : i.client_id = client_id /\ i.user_id = user} # {}
       THEN /\ response' = Reply("delete_client", 400,
                                 "Cannot delete client with associated invoices")
            /\ UNCHANGED inflight
       ELSE /\ inflight' = [inflight EXCEPT
                               ![w] = InFlight("delete_client:delete", user,
                                               client_id, <<>>, 0, <<>>)]
            /\ UNCHANGED response
    /\ UNCHANGED <<clients, invoices, line_items, nextId, now>>
    /\ UNCHANGED <<domainVars, call>>

\* delete_client, line 119-122: the delete
delete_client_delete(w) ==
    /\ inflight[w].pc = "delete_client:delete"
    /\ LET client_id == inflight[w].target
           user == inflight[w].user
       IN  IF RowsOf(clients, client_id, user) = {}
           THEN /\ response' = Reply("delete_client", 404, "Client not found")
                /\ UNCHANGED clients
           ELSE /\ clients' = clients \ RowsOf(clients, client_id, user)
                /\ response' = Reply("delete_client", 204, "")
    /\ inflight' = [inflight EXCEPT ![w] = Idle]
    /\ UNCHANGED <<invoices, line_items, nextId, now>>
    /\ UNCHANGED <<domainVars, call>>

\* create_invoice, line 114-147: the checks of the request and the insert
\* of the invoice row
create_invoice_insert(w, request, user) ==
    /\ inflight[w] = Idle
    /\ IF request.due_date < request.invoice_date
       THEN /\ response' = Reply("create_invoice", 400,
                                 "Due date cannot be before invoice date")
            /\ UNCHANGED <<invoices, nextId, now, inflight>>
       ELSE IF request.line_items = <<>>
       THEN /\ response' = Reply("create_invoice", 400,
                                 "At least one line item is required")
            /\ UNCHANGED <<invoices, nextId, now, inflight>>
       ELSE \E t \in FirstReading(now) :
               /\ nextId.invoices <= MaxInvoices
               /\ Admits(Len(request.line_items))
               /\ invoices' = invoices \cup
                     {[id |-> nextId.invoices,
                       user_id |-> user,
                       client_id |-> request.client_id,
                       invoice_number |-> request.invoice_number,
                       invoice_date |-> isoformat(request.invoice_date),
                       due_date |-> isoformat(request.due_date),
                       tax_rate |-> str(request.tax_rate),
                       status |-> "draft",
                       sent_date |-> None,
                       paid_date |-> None,
                       updated_at |-> t]}
               /\ nextId' = [nextId EXCEPT !.invoices = @ + 1]
               /\ now' = t
               /\ inflight' = [inflight EXCEPT
                                  ![w] = InFlight("create_invoice:insert_line_items",
                                                  user, nextId.invoices, request,
                                                  Len(request.line_items), <<>>)]
               /\ UNCHANGED response
    /\ UNCHANGED <<clients, line_items>>
    /\ UNCHANGED <<domainVars, call>>

\* create_invoice, line 149-159: the insert of the line items
create_invoice_insert_line_items(w) ==
    /\ inflight[w].pc = "create_invoice:insert_line_items"
    /\ line_items' = line_items \o
          LineItemRows(inflight[w].target, inflight[w].request.line_items,
                       nextId.line_items)
    /\ nextId' = [nextId EXCEPT !.line_items = @ + inflight[w].rows]
    /\ inflight' = [inflight EXCEPT ![w].pc = "create_invoice:get_invoice",
                                    ![w].rows = 0]
    /\ UNCHANGED <<clients, invoices, response, now>>
    /\ UNCHANGED <<domainVars, call>>

\* create_invoice, line 159 and 165-169: the store raises on the insert of
\* the line items; the handler answers 400 with the error
create_invoice_insert_line_items_raises(w) ==
    /\ inflight[w].pc = "create_invoice:insert_line_items"
    /\ response' = Reply("create_invoice", 400, "APIError")
    /\ inflight' = [inflight EXCEPT ![w] = Idle]
    /\ UNCHANGED <<clients, invoices, line_items, nextId, now>>
    /\ UNCHANGED <<domainVars, call>>

\* create_invoice, line 161: get_invoice on the new invoice
create_invoice_get_invoice(w) ==
    /\ inflight[w].pc = "create_invoice:get_invoice"
    /\ response' = get_invoice_response("create_invoice", 201, inflight[w].target,
                                        inflight[w].user, invoices, line_items, clients)
    /\ inflight' = [inflight EXCEPT ![w] = Idle]
    /\ UNCHANGED <<clients, invoices, line_items, nextId, now>>
    /\ UNCHANGED <<domainVars, call>>

\* update_invoice, line 291-297 as reached after the row update (or after
\* the select when update_data is empty): on to the line items when the
\* request carries some, 400 when it carries an empty list, else on to
\* get_invoice
update_invoice_line_items_next(w, invoice_id, request, user) ==
    IF "line_items" \notin DOMAIN request
    THEN /\ inflight' = [inflight EXCEPT
                            ![w] = InFlight("update_invoice:get_invoice", user,
                                            invoice_id, request, 0, <<>>)]
         /\ UNCHANGED response
    ELSE IF request.line_items = <<>>
    THEN /\ response' = Reply("update_invoice", 400,
                              "At least one line item is required")
         /\ inflight' = [inflight EXCEPT ![w] = Idle]
    ELSE /\ inflight' = [inflight EXCEPT
                            ![w] = InFlight("update_invoice:delete_line_items", user,
                                            invoice_id, request,
                                            Len(request.line_items), <<>>)]
         /\ UNCHANGED response

\* update_invoice, line 239-277: the select of the stored dates, the date
\* check and, when update_data is not empty, the clock reading it carries
update_invoice_select(w, invoice_id, request, user) ==
    /\ inflight[w] = Idle
    /\ IF RowsOf(invoices, invoice_id, user) = {}
       THEN /\ response' = Reply("update_invoice", 404, "Invoice not found")
            /\ UNCHANGED <<inflight, now>>
       ELSE
         LET existing_invoice == CHOOSE r \in RowsOf(invoices, invoice_id, user) : TRUE
             update_data == UpdateData(request)
             invoice_date == EffectiveDate(request, existing_invoice, "invoice_date")
             due_date == EffectiveDate(request, existing_invoice, "due_date")
         IN
         IF due_date < invoice_date
         THEN /\ response' = Reply("update_invoice", 400,
                                   "Due date cannot be before invoice date")
              /\ UNCHANGED <<inflight, now>>
         ELSE IF DOMAIN update_data # {}
         THEN \E t \in FirstReading(now) :
                 /\ Admits(IF "line_items" \in DOMAIN request
                           THEN Len(request.line_items) ELSE 0)
                 /\ now' = t
                 /\ inflight' = [inflight EXCEPT
                                    ![w] = InFlight("update_invoice:update", user,
                                                    invoice_id, request,
                                                    IF "line_items" \in DOMAIN request
                                                    THEN Len(request.line_items) ELSE 0,
                                                    update_data @@ [updated_at |-> t])]
                 /\ UNCHANGED response
         ELSE /\ Admits(IF "line_items" \in DOMAIN request
                        THEN Len(request.line_items) ELSE 0)
              /\ update_invoice_line_items_next(w, invoice_id, request, user)
              /\ UNCHANGED now
    /\ UNCHANGED <<clients, invoices, line_items, nextId>>
    /\ UNCHANGED <<domainVars, call>>

\* update_invoice, line 279-289: the update of the row as it is stored now,
\* with the update_data built before the call
update_invoice_update(w) ==
    /\ inflight[w].pc = "update_invoice:update"
    /\ LET invoice_id == inflight[w].target
           request == inflight[w].request
           user == inflight[w].user
           update_data == inflight[w].update_data
       IN  IF RowsOf(invoices, invoice_id, user) = {}
           THEN /\ response' = Reply("update_invoice", 404, "Invoice not found")
                /\ inflight' = [inflight EXCEPT ![w] = Idle]
                /\ UNCHANGED invoices
           ELSE /\ invoices' =
                     (invoices \ RowsOf(invoices, invoice_id, user))
                        \cup {Patched(r, update_data) :
                                 r \in RowsOf(invoices, invoice_id, user)}
                /\ update_invoice_line_items_next(w, invoice_id, request, user)
    /\ UNCHANGED <<clients, line_items, nextId, now>>
    /\ UNCHANGED <<domainVars, call>>

\* update_invoice, line 299-302: the delete of the invoice's line items
update_invoice_delete_line_items(w) ==
    /\ inflight[w].pc = "update_invoice:delete_line_items"
    /\ line_items' = NotOfInvoice(line_items, inflight[w].target)
    /\ inflight' = [inflight EXCEPT ![w].pc = "update_invoice:insert_line_items"]
    /\ UNCHANGED <<clients, invoices, nextId, response, now>>
    /\ UNCHANGED <<domainVars, call>>

\* update_invoice, line 304-313: the insert of the request's line items
update_invoice_insert_line_items(w) ==
    /\ inflight[w].pc = "update_invoice:insert_line_items"
    /\ line_items' = line_items \o
          LineItemRows(inflight[w].target, inflight[w].request.line_items,
                       nextId.line_items)
    /\ nextId' = [nextId EXCEPT !.line_items = @ + inflight[w].rows]
    /\ inflight' = [inflight EXCEPT ![w].pc = "update_invoice:get_invoice",
                                    ![w].rows = 0]
    /\ UNCHANGED <<clients, invoices, response, now>>
    /\ UNCHANGED <<domainVars, call>>

\* update_invoice, line 313 and 319-323: the store raises on the insert of
\* the line items, after the old ones were deleted
update_invoice_insert_line_items_raises(w) ==
    /\ inflight[w].pc = "update_invoice:insert_line_items"
    /\ response' = Reply("update_invoice", 400, "APIError")
    /\ inflight' = [inflight EXCEPT ![w] = Idle]
    /\ UNCHANGED <<clients, invoices, line_items, nextId, now>>
    /\ UNCHANGED <<domainVars, call>>

\* update_invoice, line 315: get_invoice on the invoice
update_invoice_get_invoice(w) ==
    /\ inflight[w].pc = "update_invoice:get_invoice"
    /\ response' = get_invoice_response("update_invoice", 200, inflight[w].target,
                                        inflight[w].user, invoices, line_items, clients)
    /\ inflight' = [inflight EXCEPT ![w] = Idle]
    /\ UNCHANGED <<clients, invoices, line_items, nextId, now>>
    /\ UNCHANGED <<domainVars, call>>

(***************************************************************************)
(* RaceSpec: two server processes handle the requests of one user; their   *)
(* store calls interleave.                                                 *)
(***************************************************************************)
\* InvoiceCreateRequest body: client 1, dated day 0, due day 1, one item
RaceCreateRequests ==
    {[client_id |-> 1, invoice_number |-> "INV-1",
      invoice_date |-> 0, due_date |-> 1, tax_rate |-> Dec(85, -1),
      line_items |-> <<ItemW>>]}

\* InvoiceUpdateRequest bodies: a line-item list (two different ones), the
\* invoice date alone, the due date alone
RaceUpdateRequests ==
    {[c \in {"line_items"} |-> <<ItemD>>],
     [c \in {"line_items"} |-> <<ItemH>>],
     [c \in {"invoice_date"} |-> 1],
     [c \in {"due_date"} |-> 0]}

RaceCreateClient == \E request \in ClientCreateRequests : create_client(request, "u1")
DeleteClientCheck ==
    \E w \in Workers, client_id \in ClientIdsApi : delete_client_check(w, client_id, "u1")
DeleteClientDelete == \E w \in Workers : delete_client_delete(w)
CreateInvoiceInsert ==
    \E w \in Workers, request \in RaceCreateRequests : create_invoice_insert(w, request, "u1")
CreateInvoiceInsertLineItems == \E w \in Workers : create_invoice_insert_line_items(w)
CreateInvoiceGetInvoice == \E w \in Workers : create_invoice_get_invoice(w)
UpdateInvoiceSelect ==
    \E w \in Workers, invoice_id \in InvoiceIdsApi, request \in RaceUpdateRequests :
        update_invoice_select(w, invoice_id, request, "u1")
UpdateInvoiceUpdate == \E w \in Workers : update_invoice_update(w)
UpdateInvoiceDeleteLineItems == \E w \in Workers : update_invoice_delete_line_items(w)
UpdateInvoiceInsertLineItems == \E w \in Workers : update_invoice_insert_line_items(w)
UpdateInvoiceGetInvoice == \E w \in Workers : update_invoice_get_invoice(w)

RaceNext ==
    \/ RaceCreateClient
    \/ DeleteClientCheck
    \/ DeleteClientDelete
    \/ CreateInvoiceInsert
    \/ CreateInvoiceInsertLineItems
    \/ CreateInvoiceGetInvoice
    \/ UpdateInvoiceSelect
    \/ UpdateInvoiceUpdate
    \/ UpdateInvoiceDeleteLineItems
    \/ UpdateInvoiceInsertLineItems
    \/ UpdateInvoiceGetInvoice

RaceSpec == ApiInit /\ [][RaceNext]_vars

(***************************************************************************)
(* FaultSpec: one server process, one request at a time; the store may     *)
(* raise on an insert of line items.                                       *)
(***************************************************************************)
\* InvoiceUpdateRequest bodies: a line-item list, a due date beside one, a
\* tax rate, an invoice number
FaultUpdateRequests ==
    {[c \in {"line_items"} |-> <<ItemD>>],
     [due_date |-> 1, line_items |-> <<ItemH, ItemD>>],
     [c \in {"tax_rate"} |-> Dec(10, 0)],
     [c \in {"invoice_number"} |-> "INV-9"]}

FaultCreateInvoiceInsert ==
    \E request \in EditCreateRequests : create_invoice_insert(1, request, "u1")
FaultCreateInvoiceInsertLineItems == create_invoice_insert_line_items(1)
FaultCreateInvoiceInsertLineItemsRaises == create_invoice_insert_line_items_raises(1)
FaultCreateInvoiceGetInvoice == create_invoice_get_invoice(1)
FaultUpdateInvoiceSelect ==
    \E invoice_id \in InvoiceIdsApi, request \in FaultUpdateRequests :
        update_invoice_select(1, invoice_id, request, "u1")
FaultUpdateInvoiceUpdate == update_invoice_update(1)
FaultUpdateInvoiceDeleteLineItems == update_invoice_delete_line_items(1)
FaultUpdateInvoiceInsertLineItems == update_invoice_insert_line_items(1)
FaultUpdateInvoiceInsertLineItemsRaises == update_invoice_insert_line_items_raises(1)
FaultUpdateInvoiceGetInvoice == update_invoice_get_invoice(1)
\* a request is only taken up when none is being handled
FaultExportInvoicePdf ==
    /\ inflight[1] = Idle
    /\ \E invoice_id \in InvoiceIdsApi : export_invoice_pdf(invoice_id, "u1")

FaultNext ==
    \/ FaultCreateInvoiceInsert
    \/ FaultCreateInvoiceInsertLineItems
    \/ FaultCreateInvoiceInsertLineItemsRaises
    \/ FaultCreateInvoiceGetInvoice
    \/ FaultUpdateInvoiceSelect
    \/ FaultUpdateInvoiceUpdate
    \/ FaultUpdateInvoiceDeleteLineItems
    \/ FaultUpdateInvoiceInsertLineItems
    \/ FaultUpdateInvoiceInsertLineItemsRaises
    \/ FaultUpdateInvoiceGetInvoice
    \/ FaultExportInvoicePdf

FaultSpec == ApiInit /\ [][FaultNext]_vars

(***************************************************************************)
(* ModelSpec: the constructors of app/models and the PDF service, called   *)
(* with arguments drawn from small sets; call records arguments and result.*)
(***************************************************************************)
\* keyword arguments of Invoice(...): lineItems omitted, empty, one item or
\* two; any pair of dates
InvoiceCtorKwargs ==
    [invoice_date : Days, due_date : Days, tax_rate : TaxRates]
      \cup [invoice_date : Days, due_date : Days, tax_rate : TaxRates,
            line_items : {<<>>} \cup {<<a>> : a \in LineItems}
                            \cup {<<a, b>> : a \in LineItems, b \in LineItems}]

ConstructLineItem ==
    /\ \E description \in Descriptions,
          quantity \in SignedDecimals, unit_rate \in SignedDecimals :
          call' = [fn |-> "LineItem",
                   args |-> <<description, quantity, unit_rate>>,
                   result |-> LineItem(1, description, quantity, unit_rate)]
    /\ UNCHANGED <<domainVars, storeVars, now, inflight>>

ConstructInvoice ==
    /\ \E kwargs \in InvoiceCtorKwargs :
          call' = [fn |-> "Invoice", args |-> kwargs, result |-> Invoice(kwargs, now)]
    /\ UNCHANGED <<domainVars, storeVars, now, inflight>>

\* a Client attached to an invoice (app/models/client.py)
ClientObjects ==
    {[name |-> "Acme", email |-> "a@x.io", street |-> "1 Main St", city |-> "Pune",
      state |-> "MH", zip_code |-> "411001", country |-> "IN", phone |-> "555"]}

\* the invoices handed to the PDF service: every invoice the constructor
\* builds, with and without a client attached
PdfInvoices ==
    {Invoice(k, 0).value[1] : k \in {a \in InvoiceCtorKwargs : Invoice(a, 0).error = ""}}
      \cup {Invoice(k @@ [client |-> <<c>>], 0).value[1] :
               k \in {a \in InvoiceCtorKwargs : Invoice(a, 0).error = ""},
               c \in ClientObjects}

ExportInvoice ==
    /\ \E invoice \in PdfInvoices :
          call' = [fn |-> "export_invoice", args |-> invoice,
                   result |-> export_invoice(invoice)]
    /\ UNCHANGED <<domainVars, storeVars, now, inflight>>

ModelNext ==
    \/ ConstructLineItem
    \/ ConstructInvoice
    \/ ExportInvoice

ModelSpec == ApiInit /\ [][ModelNext]_vars

(***************************************************************************)
(* Properties of the Invoice aggregate, checked under Spec.                *)
(***************************************************************************)
\* the value of a decimal in units of 10^-6
Micro(d) == d.coef * Pow10(d.exp + 6)

\* the sum of quantity x unit_rate over a list, in units of 10^-6
RECURSIVE AmountsMicro(_)
AmountsMicro(items) ==
    IF items = <<>> THEN 0
    ELSE Head(items).quantity.coef * Head(items).unit_rate.coef
            * Pow10(Head(items).quantity.exp + Head(items).unit_rate.exp + 6)
         + AmountsMicro(Tail(items))

WithId(items, item_id) == SelectSeq(items, LAMBDA x : x.id = item_id)
WithoutId(items, item_id) == SelectSeq(items, LAMBDA x : x.id # item_id)

\* C1: in every reachable state of the invoice, calculate_subtotal() is the
\* sum of quantity x unit_rate over the items now in line_items.
C1_SubtotalIsSumOfLiveItems ==
    Micro(calculate_subtotal(inv)) = AmountsMicro(inv.line_items)

\* C1 witness: after a removal the subtotal is that of the item left (0.15),
\* not that of the item the invoice was built with.
C1_Witness ==
    /\ lastOp.op = "remove_line_item"
    /\ Len(inv.line_items) = 1
    /\ inv.line_items[1].id = 1
    /\ Micro(calculate_subtotal(inv)) = 150000

\* C2: tax * 100 = subtotal * tax_rate and total = subtotal + tax, for any
\* number of items; a zero rate gives zero tax and total = subtotal.
C2_TaxAndTotal ==
    /\ LET scaled == AmountsMicro(inv.line_items) * inv.tax_rate.coef
                         * Pow10(inv.tax_rate.exp + 1)
       IN  /\ scaled % 1000 = 0
           /\ Micro(calculate_tax(inv)) = scaled \div 1000
    /\ Micro(calculate_total(inv))
         = Micro(calculate_subtotal(inv)) + Micro(calculate_tax(inv))
    /\ inv.tax_rate.coef = 0 =>
          /\ Micro(calculate_tax(inv)) = 0
          /\ Micro(calculate_total(inv)) = Micro(calculate_subtotal(inv))

\* C2 witness: two items taxed at 8.5 %: subtotal 3.15, tax 0.26775.
C2_Witness ==
    /\ Len(inv.line_items) = 2
    /\ inv.tax_rate = Dec(85, -1)
    /\ Micro(calculate_subtotal(inv)) = 3150000
    /\ Micro(calculate_tax(inv)) = 267750
    /\ Micro(calculate_total(inv)) = 3417750

\* C3: once the status has left draft no step sets it back to draft.
C3_NeverBackToDraft ==
    [][inv.status # "draft" => inv'.status # "draft"]_vars

\* C4: a step that enters overdue starts in sent, with today after the due
\* date, and is the overdue check.
C4_OverdueOnlyFromSentByCheck ==
    [][(inv'.status = "overdue" /\ inv.status # "overdue")
          => /\ inv.status = "sent"
             /\ today > inv.due_date
             /\ lastOp'.op = "check_overdue"]_vars

\* C5: sent_date is set by the first update_status(SENT), paid_date by the
\* first update_status(PAID); once set, no later call changes or clears them.
C5_DatesSetOnceAndKept ==
    [][/\ inv.sent_date # None => inv'.sent_date = inv.sent_date
       /\ inv.paid_date # None => inv'.paid_date = inv.paid_date
       /\ (lastOp'.op = "update_status" /\ inv'.status = "sent")
             => inv'.sent_date # None
       /\ (lastOp'.op = "update_status" /\ inv'.status = "paid")
             => inv'.paid_date # None
       /\ (inv.sent_date = None /\ inv'.sent_date # None)
             => /\ lastOp'.op = "update_status" /\ inv'.status = "sent"
                /\ inv'.sent_date >= now /\ inv'.sent_date <= now'
       /\ (inv.paid_date = None /\ inv'.paid_date # None)
             => /\ lastOp'.op = "update_status" /\ inv'.status = "paid"
                /\ inv'.paid_date >= now /\ inv'.paid_date <= now'
      ]_vars

\* C5 witness: the invoice was marked sent again at a later time and still
\* carries the first sent timestamp.
C5_Witness ==
    /\ lastOp.op = "update_status"
    /\ inv.status = "sent"
    /\ inv.sent_date # None
    /\ inv.sent_date < inv.updated_at

\* C7: the invoice has at least one line item in every reachable state.
C7_LineItemsNeverEmpty == Len(inv.line_items) >= 1

\* C8 as claimed: removing an id that is present shortens the list by exactly
\* one item and lowers the subtotal by exactly that item's amount, the other
\* items keeping their order.
C8_RemoveTakesExactlyOne ==
    [][\A item_id \in ItemIds :
          (remove_line_item(item_id) /\ WithId(inv.line_items, item_id) # <<>>)
             => \E k \in DOMAIN inv.line_items :
                   /\ inv.line_items[k].id = item_id
                   /\ inv'.line_items
                        = SubSeq(inv.line_items, 1, k - 1)
                             \o SubSeq(inv.line_items, k + 1, Len(inv.line_items))
                   /\ Micro(calculate_subtotal(inv))
                        = Micro(calculate_subtotal(inv'))
                             + Micro(calculate_amount(inv.line_items[k]))]_vars

\* C8 amended: removing an id removes every item that carries it: the list
\* shortens by their number and the subtotal drops by the sum of their
\* amounts (exactly one item and its amount when the id occurs once), the
\* other items keeping their order.
C8_RemoveTakesEveryMatch ==
    [][\A item_id \in ItemIds :
          (remove_line_item(item_id) /\ WithId(inv.line_items, item_id) # <<>>)
             => /\ inv'.line_items = WithoutId(inv.line_items, item_id)
                /\ Len(inv'.line_items)
                     = Len(inv.line_items) - Len(WithId(inv.line_items, item_id))
                /\ Micro(calculate_subtotal(inv))
                     = Micro(calculate_subtotal(inv'))
                          + AmountsMicro(WithId(inv.line_items, item_id))
                /\ Len(WithId(inv.line_items, item_id)) = 1
                     => Len(inv'.line_items) = Len(inv.line_items) - 1]_vars

\* C8 witness: one call removed two items that shared an id.
C8_Witness ==
    /\ lastOp.op = "remove_line_item"
    /\ lastOp.removed = 2

\* C9: check_overdue sets overdue and refreshes updated_at exactly when the
\* status is sent and today is after due_date; otherwise it changes nothing;
\* it never touches sent_date, paid_date or the line items.
C9_CheckOverdueEffect ==
    [][lastOp'.op = "check_overdue"
          => /\ IF inv.status = "sent" /\ today > inv.due_date
                THEN /\ inv'.status = "overdue"
                     /\ inv'.updated_at >= now /\ inv'.updated_at = now'
                     /\ inv'.invoice_date = inv.invoice_date
                     /\ inv'.due_date = inv.due_date
                     /\ inv'.tax_rate = inv.tax_rate
                ELSE inv' = inv /\ now' = now
             /\ inv'.sent_date = inv.sent_date
             /\ inv'.paid_date = inv.paid_date
             /\ inv'.line_items = inv.line_items
             /\ today' = today]_vars

\* C9 witness: the check has just turned a sent invoice overdue, at a time
\* after it was sent.
C9_Witness ==
    /\ lastOp.op = "check_overdue"
    /\ inv.status = "overdue"
    /\ today > inv.due_date
    /\ inv.sent_date # None
    /\ inv.sent_date < inv.updated_at

\* C19: update_status(new_status) can be called in every status; it sets
\* status to new_status and refreshes updated_at, stamps only the date that
\* matches new_status and only when that date is unset, and leaves the line
\* items and the other fields alone (so draft -> paid sets paid_date and
\* leaves sent_date unset).
C19_UpdateStatusEffect ==
    [][\A new_status \in InvoiceStatus :
          /\ ENABLED update_status(new_status)
          /\ update_status(new_status)
                => /\ inv'.status = new_status
                   /\ inv'.updated_at >= now /\ inv'.updated_at <= now'
                   /\ IF new_status = "sent" /\ inv.sent_date = None
                      THEN inv'.sent_date # None /\ inv'.sent_date = now'
                      ELSE inv'.sent_date = inv.sent_date
                   /\ IF new_status = "paid" /\ inv.paid_date = None
                      THEN inv'.paid_date # None /\ inv'.paid_date = now'
                      ELSE inv'.paid_date = inv.paid_date
                   /\ inv'.line_items = inv.line_items
                   /\ inv'.invoice_date = inv.invoice_date
                   /\ inv'.due_date = inv.due_date
                   /\ inv'.tax_rate = inv.tax_rate]_vars

\* C19 witness: an invoice that was never marked sent is paid: paid_date is
\* set and sent_date is not.
C19_Witness ==
    /\ lastOp.op = "update_status"
    /\ inv.status = "paid"
    /\ inv.paid_date # None
    /\ inv.sent_date = None

\* C20: remove_line_item with an id no item carries leaves the line items
\* (contents and order), status, sent_date and paid_date as they were and
\* refreshes updated_at.
C20_RemoveAbsentIsNoOp ==
    [][\A item_id \in ItemIds :
          (remove_line_item(item_id) /\ WithId(inv.line_items, item_id) = <<>>)
             => /\ inv'.line_items = inv.line_items
                /\ inv'.status = inv.status
                /\ inv'.sent_date = inv.sent_date
                /\ inv'.paid_date = inv.paid_date
                /\ inv'.invoice_date = inv.invoice_date
                /\ inv'.due_date = inv.due_date
                /\ inv'.tax_rate = inv.tax_rate
                /\ inv'.updated_at >= now /\ inv'.updated_at = now']_vars

\* C20 witness: a removal that matched nothing left a two-item invoice as
\* it was, at a later time than it was built.
C20_Witness ==
    /\ lastOp.op = "remove_line_item"
    /\ lastOp.removed = 0
    /\ Len(inv.line_items) = 2
    /\ inv.updated_at = now
    /\ now = MaxNow

(***************************************************************************)
(* Properties of the handlers, checked under ApiSpec.                      *)
(***************************************************************************)
\* the invoices of a user that reference a client id
InvoicesOfClient(client_id, user) ==
    {i \in invoices : i.client_id = client_id /\ i.user_id = user}

\* C6: mark-sent on a stored invoice whose sent_date is set keeps that
\* sent_date, and mark-paid keeps a paid_date that is set; the status and
\* updated_at take the new values.
C6_MarkKeepsSetTimestamp ==
    [][\A invoice_id \in InvoiceIdsApi, user \in Users :
          /\ mark_invoice_sent(invoice_id, user)
                => \A r \in RowsOf(invoices, invoice_id, user) :
                      r.sent_date # None
                         => \E q \in RowsOf(invoices', invoice_id, user) :
                               /\ q.sent_date = r.sent_date
                               /\ q.status = "sent"
                               /\ q.updated_at = now'
          /\ mark_invoice_paid(invoice_id, user)
                => \A r \in RowsOf(invoices, invoice_id, user) :
                      r.paid_date # None
                         => \E q \in RowsOf(invoices', invoice_id, user) :
                               /\ q.paid_date = r.paid_date
                               /\ q.status = "paid"
                               /\ q.updated_at = now']_vars

\* C10: delete_client answers 400 'Cannot delete client with associated
\* invoices' and deletes nothing when an invoice of the user references the
\* client; otherwise it removes the user's client row (404 when there is
\* none); no client row ever disappears while an invoice of its user
\* references it.
C10_DeleteClientGuarded ==
    [][/\ \A client_id \in ClientIdsApi, user \in Users :
             (response'.op = "delete_client" /\ delete_client(client_id, user))
                => /\ response'.op = "delete_client"
                   /\ invoices' = invoices
                   /\ line_items' = line_items
                   /\ IF InvoicesOfClient(client_id, user) # {}
                      THEN /\ response'.code = 400
                           /\ response'.detail
                                = "Cannot delete client with associated invoices"
                           /\ clients' = clients
                      ELSE /\ clients' = {c \in clients :
                                             ~(c.id = client_id /\ c.user_id = user)}
                           /\ response'.code
                                = IF \E c \in clients :
                                        c.id = client_id /\ c.user_id = user
                                  THEN 204 ELSE 404
       /\ \A c \in clients \ clients' : InvoicesOfClient(c.id, c.user_id) = {}
      ]_vars

\* C10 witness: a deletion was just refused, and the client and the invoice
\* of the same user that references it are both still stored.
C10_Witness ==
    /\ response.op = "delete_client"
    /\ response.code = 400
    /\ \E c \in clients : InvoicesOfClient(c.id, c.user_id) # {}
(***************************************************************************)
(* Properties of the constructors, checked under ModelSpec.                *)
(***************************************************************************)
\* C13: Invoice(...) raises a validation error and builds nothing when the
\* line-item list is empty or due_date < invoice_date; it builds the invoice
\* when due_date = invoice_date and there is at least one line item.
C13_ConstructionRejectsEmptyOrBackdated ==
    call.fn = "Invoice"
       => LET items == Field(call.args, "line_items", <<>>)
          IN  /\ (items = <<>> \/ call.args.due_date < call.args.invoice_date)
                    => /\ call.result.error = "ValidationError"
                       /\ call.result.value = <<>>
              /\ (items # <<>> /\ call.args.due_date = call.args.invoice_date)
                    => /\ call.result.error = ""
                       /\ Len(call.result.value) = 1
                       /\ call.result.value[1].line_items = items

\* C14: LineItem(...) is rejected exactly when the description is empty or
\* quantity <= 0 or unit_rate <= 0; otherwise it is built with the values given.
C14_LineItemValidation ==
    call.fn = "LineItem"
       => IF \/ call.args[1] = <<>>
             \/ call.args[2].coef <= 0
             \/ call.args[3].coef <= 0
          THEN /\ call.result.error = "ValidationError"
               /\ call.result.value = <<>>
          ELSE /\ call.result.error = ""
               /\ Len(call.result.value) = 1
               /\ call.result.value[1].description = call.args[1]
               /\ call.result.value[1].quantity = call.args[2]
               /\ call.result.value[1].unit_rate = call.args[3]

\* C14 witness: a zero quantity written 0.00, with a description and a
\* positive rate, was rejected.
C14_Witness ==
    /\ call.fn = "LineItem"
    /\ call.args = <<(<<"W">>), Dec(0, -2), Dec(2, 0)>>
    /\ call.result.error = "ValidationError"

\* the sections of a document in the order of their flowables, spacers left out
RECURSIVE SectionsOf(_)
SectionsOf(elements) ==
    IF elements = <<>> THEN <<>>
    ELSE IF Head(elements).kind = "Spacer" THEN SectionsOf(Tail(elements))
    ELSE <<Head(elements).section>> \o SectionsOf(Tail(elements))

SectionRank(section) ==
    CASE section = "header" -> 1
      [] section = "client" -> 2
      [] section = "line_items" -> 3
      [] section = "totals" -> 4

\* C18: the exported document carries its sections in the order header,
\* client block, line-item table, totals; header, table and totals are always
\* there; the client block is there exactly when a client is attached, and
\* its absence raises no error.
C18_PdfSectionOrder ==
    call.fn = "export_invoice"
       => LET sections == SectionsOf(call.result.value[1])
          IN  /\ call.result.error = ""
              /\ \A i, j \in DOMAIN sections :
                     i < j => SectionRank(sections[i]) <= SectionRank(sections[j])
              /\ \E i \in DOMAIN sections : sections[i] = "header"
              /\ \E i \in DOMAIN sections : sections[i] = "line_items"
              /\ \E i \in DOMAIN sections : sections[i] = "totals"
              /\ (\E i \in DOMAIN sections : sections[i] = "client")
                    <=> call.args.client # <<>>

\* C18 witness: an invoice with no client attached was exported: five header
\* paragraphs, the table and the totals, and no client paragraph.
C18_Witness ==
    /\ call.fn = "export_invoice"
    /\ call.args.client = <<>>
    /\ call.result.error = ""
    /\ SectionsOf(call.result.value[1])
         = <<"header", "header", "header", "header", "header", "line_items", "totals">>

(***************************************************************************)
(* Properties of the client endpoints, checked under ClientSpec.           *)
(***************************************************************************)
\* C17: update_client writes the supplied (non-null) fields into the user's
\* client row and keeps every other field and every other row; a request with
\* no field, or with nulls only, is answered 400 and changes nothing.
C17_UpdateClientPartial ==
    [][\A client_id \in ClientIdsApi, request \in ClientUpdateRequests, user \in Users :
          update_client(client_id, request, user)
             => LET supplied == {c \in DOMAIN request : request[c] # <<>>}
                IN  /\ response'.op = "update_client"
                    /\ invoices' = invoices /\ line_items' = line_items
                    /\ supplied = {}
                          => /\ response'.code = 400
                             /\ response'.detail = "No fields to update"
                             /\ clients' = clients
                    /\ \A r \in clients :
                          IF supplied # {} /\ r.id = client_id /\ r.user_id = user
                          THEN /\ response'.code = 200
                               /\ \E q \in clients' :
                                     /\ q.id = r.id /\ q.user_id = r.user_id
                                     /\ \A c \in ClientColumns :
                                           q[c] = IF c \in supplied
                                                  THEN request[c][1] ELSE r[c]
                          ELSE r \in clients'
                    /\ Cardinality(clients') = Cardinality(clients)]_vars

\* C17 witness: after two partial updates the row carries the new name and
\* the new phone beside the e-mail it was created with.
C17_Witness ==
    /\ response.op = "update_client"
    /\ response.code = 200
    /\ \E r \in clients :
          r.name = "Bolt" /\ r.phone = "777" /\ r.email = "a@x.io" /\ r.city = "Pune"

(***************************************************************************)
(* Properties of all endpoints, checked under AccessSpec.                  *)
(***************************************************************************)
\* the answer is not-found and no table changed
NotFoundNothingWritten ==
    /\ response'.code = 404
    /\ clients' = clients
    /\ invoices' = invoices
    /\ line_items' = line_items

\* C16: a request that names an invoice or a client the requesting user has
\* no row for (missing, or another user's) is answered not-found and writes
\* nothing: get, update (with a field to write), delete, mark sent, mark
\* paid and PDF export.
C16_MissingTargetNotFound ==
    [][/\ \A invoice_id \in InvoiceIdsApi, user \in Users :
             RowsOf(invoices, invoice_id, user) = {}
                => /\ get_invoice(invoice_id, user) => NotFoundNothingWritten
                   /\ \A request \in UpdateRequests :
                         update_invoice(invoice_id, request, user)
                            => NotFoundNothingWritten
                   /\ delete_invoice(invoice_id, user) => NotFoundNothingWritten
                   /\ mark_invoice_sent(invoice_id, user) => NotFoundNothingWritten
                   /\ mark_invoice_paid(invoice_id, user) => NotFoundNothingWritten
                   /\ export_invoice_pdf(invoice_id, user) => NotFoundNothingWritten
       /\ \A client_id \in ClientIdsApi, user \in Users :
             RowsOf(clients, client_id, user) = {}
                => /\ get_client(client_id, user) => NotFoundNothingWritten
                   /\ update_client(client_id, [name |-> <<"Bolt">>], user)
                         => NotFoundNothingWritten
                   /\ delete_client(client_id, user) => NotFoundNothingWritten
      ]_vars

(***************************************************************************)
(* Properties of invoice creation and editing, checked under EditSpec and  *)
(* CreateSpec.                                                             *)
(***************************************************************************)
\* the day an ISO date text names, the number a decimal literal names
DayOf(text) == text[2]
LiteralMicro(text) == text[2] * Pow10(text[3] + 6)

\* C11: a successful update_invoice that carries a non-empty lineItems list
\* leaves as the invoice's stored line items exactly the items of the request,
\* in fresh rows: no prior row remains, the count is the new count, and the
\* returned subtotal, tax and total are those of the new items alone.
C11_UpdateReplacesLineItems ==
    [][\A invoice_id \in InvoiceIdsApi, request \in EditUpdateRequests :
          (/\ "line_items" \in DOMAIN request
           /\ response'.op = "update_invoice"
           /\ response'.code = 200
           /\ update_invoice(invoice_id, request, "u1"))
             => LET items == request.line_items
                    stored == OfInvoice(line_items', invoice_id)
                    body == response'.body[1]
                    rate == CHOOSE r \in RowsOf(invoices', invoice_id, "u1") : TRUE
                    scaled == AmountsMicro(items) * rate.tax_rate[2]
                                 * Pow10(rate.tax_rate[3] + 1)
                IN  /\ items # <<>>
                    /\ Len(stored) = Len(items)
                    /\ \A k \in DOMAIN items :
                          /\ stored[k].description = items[k].description
                          /\ stored[k].quantity[2] = items[k].quantity.coef
                          /\ stored[k].quantity[3] = items[k].quantity.exp
                          /\ stored[k].unit_rate[2] = items[k].unit_rate.coef
                          /\ stored[k].unit_rate[3] = items[k].unit_rate.exp
                    /\ \A j \in DOMAIN line_items :
                          IF line_items[j].invoice_id = invoice_id
                          THEN \A k \in DOMAIN line_items' :
                                  line_items'[k].id # line_items[j].id
                          ELSE \E k \in DOMAIN line_items' :
                                  line_items'[k] = line_items[j]
                    /\ Len(body.lineItems) = Len(items)
                    /\ LiteralMicro(body.subtotal) = AmountsMicro(items)
                    /\ LiteralMicro(body.tax) = scaled \div 1000
                    /\ LiteralMicro(body.total)
                         = AmountsMicro(items) + scaled \div 1000]_vars

\* C11 witness: an invoice created with two items was updated with one: one
\* row is stored, the third the store ever made, and the returned subtotal
\* is that row's 0.25.
C11_Witness ==
    /\ response.op = "update_invoice"
    /\ response.code = 200
    /\ nextId.line_items = 4
    /\ Len(line_items) = 1
    /\ line_items[1].id = 3
    /\ LiteralMicro(response.body[1].subtotal) = 250000

\* C12: every stored invoice has due_date >= invoice_date; create_invoice and
\* update_invoice answer 400 and write nothing when the dates of the request,
\* a date the request leaves out being the one stored, break the rule.
C12_StoredDatesOrdered ==
    /\ [](\A r \in invoices : DayOf(r.due_date) >= DayOf(r.invoice_date))
    /\ [][/\ response'.op = "create_invoice" =>
               \A request \in EditCreateRequests :
                  (/\ request.due_date < request.invoice_date
                   /\ create_invoice(request, "u1"))
                     => /\ response'.code = 400
                        /\ response'.detail = "Due date cannot be before invoice date"
                        /\ UNCHANGED <<invoices, line_items, clients>>
          /\ response'.op = "update_invoice" =>
               \A invoice_id \in InvoiceIdsApi :
                  \A r \in RowsOf(invoices, invoice_id, "u1") :
                     \A req \in EditUpdateRequests :
                        (/\ Field(req, "due_date", DayOf(r.due_date))
                               < Field(req, "invoice_date", DayOf(r.invoice_date))
                         /\ update_invoice(invoice_id, req, "u1"))
                           => /\ response'.code = 400
                              /\ response'.detail = "Due date cannot be before invoice date"
                              /\ UNCHANGED <<invoices, line_items, clients>>]_vars

\* C12 witness: an update was refused for its dates while the stored invoice
\* is dated and due on the last day, so a due date alone was checked against
\* the stored invoice date.
C12_Witness ==
    /\ response.op = "update_invoice"
    /\ response.code = 400
    /\ response.detail = "Due date cannot be before invoice date"
    /\ \E r \in invoices :
          DayOf(r.invoice_date) = MaxDay /\ DayOf(r.due_date) = MaxDay

\* C15: an Invoice built by the constructor is in draft with sent_date and
\* paid_date unset, and so is every invoice row create_invoice stores, and
\* the invoice it returns, whatever the request body says.
C15_NewInvoiceIsDraft ==
    /\ [](lastOp.op = "construct"
            => /\ inv.status = "draft"
               /\ inv.sent_date = None
               /\ inv.paid_date = None)
    /\ [][\A request \in EditCreateRequests :
             (/\ response'.op = "create_invoice"
              /\ response'.code = 201
              /\ create_invoice(request, "u1"))
                => /\ invoices' # invoices
                   /\ \A r \in invoices' \ invoices :
                         /\ r.status = "draft"
                         /\ r.sent_date = None
                         /\ r.paid_date = None
                   /\ response'.body[1].status = "draft"
                   /\ response'.body[1].sentDate = None
                   /\ response'.body[1].paidDate = None]_vars

\* C15 witness: create_invoice has just stored and returned a draft, beside
\* a constructed invoice that is a draft too.
C15_Witness ==
    /\ response.op = "create_invoice"
    /\ response.code = 201
    /\ response.body[1].status = "draft"
    /\ \E r \in invoices : r.status = "draft" /\ r.sent_date = None /\ r.updated_at = now
    /\ inv.status = "draft" /\ inv.sent_date = None /\ inv.paid_date = None

(***************************************************************************)
(* Properties of the PDF pipeline on an invoice without line items,        *)
(* checked under ModelSpec.                                                *)
(***************************************************************************)
\* the tables a document holds for a section
TablesOf(elements, section) ==
    {k \in DOMAIN elements :
        elements[k].kind = "Table" /\ elements[k].section = section}

\* C21: export_invoice on a hydrated invoice that has no line items raises
\* nothing and produces a document whose line-item table is there and holds
\* the header row only; the pipeline does not check the non-empty rule again.
C21_ExportWithoutLineItems ==
    (call.fn = "export_invoice" /\ call.args.line_items = <<>>)
       => /\ call.result.error = ""
          /\ LET elements == call.result.value[1]
             IN  /\ Cardinality(TablesOf(elements, "line_items")) = 1
                 /\ \A k \in TablesOf(elements, "line_items") :
                       elements[k].data
                          = <<(<<"Description", "Quantity", "Unit Rate", "Amount">>)>>
                 /\ Cardinality(TablesOf(elements, "totals")) = 1

\* C21 witness: an invoice without line items was exported and the document
\* came back with a one-row line-item table.
C21_Witness ==
    /\ call.fn = "export_invoice"
    /\ call.args.line_items = <<>>
    /\ call.result.error = ""
    /\ \E k \in DOMAIN call.result.value[1] :
          /\ call.result.value[1][k].section = "line_items"
          /\ Len(call.result.value[1][k].data) = 1

(***************************************************************************)
(* Properties of rejected updates and of the two computations of the       *)
(* totals, checked under EditSpec.                                         *)
(***************************************************************************)
\* C22: an update_invoice request that is rejected with 400 (lineItems
\* present but empty, or the resulting due date before the invoice date)
\* leaves the invoice row and the line-item rows as they were, whatever
\* other fields the request carries.
C22_RejectedUpdateWritesNothing ==
    [][(response'.op = "update_invoice" /\ response'.code = 400)
          => UNCHANGED <<invoices, line_items>>]_vars

\* the stored invoice with its rows, as the select of get_invoice and of
\* export_invoice_pdf returns it
Selected(r) ==
    CHOOSE d \in SelectInvoice(r.id, r.user_id, invoices, line_items, clients) : TRUE

\* C29: for every stored invoice with at least one line item, the subtotal,
\* tax and total of _transform_invoice_response equal calculate_subtotal,
\* calculate_tax and calculate_total of the Invoice that
\* _convert_to_domain_model hydrates from the same rows.
C29_ResponseTotalsMatchDomain ==
    \A r \in invoices :
       Selected(r).line_items # <<>>
          => LET body == transform_invoice_response(Selected(r))
                 hydrated == convert_to_domain_model(Selected(r), now)
             IN  /\ hydrated.error = ""
                 /\ LiteralMicro(body.subtotal)
                       = Micro(calculate_subtotal(hydrated.value[1]))
                 /\ LiteralMicro(body.tax) = Micro(calculate_tax(hydrated.value[1]))
                 /\ LiteralMicro(body.total) = Micro(calculate_total(hydrated.value[1]))

\* C29 witness: an invoice is stored with two line items (2 x 1.5 and
\* 1.5 x 0.10) and a tax rate above zero, and both computations give the
\* subtotal 3.15.
C29_Witness ==
    \E r \in invoices :
       /\ Len(Selected(r).line_items) = 2
       /\ LiteralMicro(transform_invoice_response(Selected(r)).subtotal) = 3150000
       /\ Micro(calculate_subtotal(convert_to_domain_model(Selected(r), now).value[1]))
             = 3150000
       /\ LiteralMicro(transform_invoice_response(Selected(r)).tax) > 0

(***************************************************************************)
(* Properties of the stored status and of the stored client reference,     *)
(* checked under ApiSpec and AccessSpec.                                   *)
(***************************************************************************)
\* C27: every stored invoice whose status is sent has its sent_date set and
\* every stored invoice whose status is paid has its paid_date set, whatever
\* create_invoice, update_invoice (a status field included), mark-sent and
\* mark-paid requests were made.
C27_StatusImpliesTimestamp ==
    \A r \in invoices :
       /\ r.status = "sent" => r.sent_date # None
       /\ r.status = "paid" => r.paid_date # None

\* C28: no stored invoice of one user references a stored client of another
\* user, and an invoice read back by get_invoice embeds no client that is
\* not a client of the invoice's user.
C28_ClientOfSameUser ==
    /\ \A r \in invoices : \A c \in clients :
          c.id = r.client_id => c.user_id = r.user_id
    /\ (response.op = "get_invoice" /\ response.code = 200)
          => \A k \in DOMAIN response.body[1].client :
                RowsOf(clients, response.body[1].client[k].id,
                       response.body[1].userId) # {}

(***************************************************************************)
(* Property of the figures of the PDF totals block, checked under          *)
(* ModelSpec.                                                              *)
(***************************************************************************)
\* quantity, unit rate and tax rate with at most two decimal places
TwoPlaces(invoice) ==
    /\ invoice.tax_rate.exp >= -2
    /\ \A k \in DOMAIN invoice.line_items :
          /\ invoice.line_items[k].quantity.exp >= -2
          /\ invoice.line_items[k].unit_rate.exp >= -2

\* C30: in the totals block of an exported invoice whose quantities, unit
\* rates and tax rate have at most two decimal places, the displayed Total
\* is the displayed Subtotal plus the displayed Tax (figures in hundredths,
\* as printed with two decimal places).
C30_DisplayedTotalsAddUp ==
    (call.fn = "export_invoice" /\ call.result.error = "" /\ TwoPlaces(call.args))
       => LET elements == call.result.value[1]
          IN  \A k \in TablesOf(elements, "totals") :
                 elements[k].data[3][2][2]
                    = elements[k].data[1][2][2] + elements[k].data[2][2][2]

(***************************************************************************)
(* Properties of interleaved and of failed store calls, checked under      *)
(* RaceSpec and FaultSpec.                                                 *)
(***************************************************************************)
\* no request is being handled
AllIdle == \A w \in Workers : inflight[w] = Idle

\* the stored line items of an invoice as a list of request items
StoredItems(invoice_id) ==
    LET rows == OfInvoice(line_items, invoice_id)
    IN  [k \in DOMAIN rows |->
           [description |-> rows[k].description,
            quantity |-> Decimal(rows[k].quantity),
            unit_rate |-> Decimal(rows[k].unit_rate)]]

\* C23: once a create_invoice or a line-item-replacing update_invoice request
\* has completed, with a response of success or of error (the store failing
\* the insert of the line items included), every stored invoice row has at
\* least one stored line item.
C23_StoredInvoiceHasLineItem ==
    AllIdle => \A r \in invoices : OfInvoice(line_items, r.id) # <<>>

\* C24: while delete_client and create_invoice (or update_invoice) requests
\* naming the same client interleave, no step removes a client that a stored
\* invoice references, so no stored invoice comes to reference a client that
\* is no longer stored.
C24_NoDeletedClientReferenced ==
    [][\A c \in clients :
          (\A d \in clients' : d.id # c.id)
             => \A r \in invoices' : r.client_id # c.id]_vars

\* C25: when two update_invoice requests carrying lineItems for the same
\* invoice have interleaved and both have made their writes, the stored line
\* items of the invoice are the list of one of the two requests: not the
\* union of both, not empty.
C25_OneRequestsLineItems ==
    (/\ inflight[1].pc = "update_invoice:get_invoice"
     /\ inflight[2].pc = "update_invoice:get_invoice"
     /\ inflight[1].target = inflight[2].target
     /\ "line_items" \in DOMAIN inflight[1].request
     /\ "line_items" \in DOMAIN inflight[2].request)
       => StoredItems(inflight[1].target)
             \in {inflight[1].request.line_items, inflight[2].request.line_items}

\* C26: when two update_invoice requests for the same invoice have
\* interleaved, one changing only invoiceDate and the other only dueDate,
\* each passing the date check against the dates it read, and both have made
\* their writes, the stored invoice has due_date >= invoice_date.
C26_InterleavedDatesOrdered ==
    \A v \in Workers, w \in Workers :
       (/\ inflight[v].pc = "update_invoice:get_invoice"
        /\ inflight[w].pc = "update_invoice:get_invoice"
        /\ inflight[v].target = inflight[w].target
        /\ DOMAIN inflight[v].request = {"invoice_date"}
        /\ DOMAIN inflight[w].request = {"due_date"})
          => \A r \in RowsOf(invoices, inflight[v].target, inflight[v].user) :
                DayOf(r.due_date) >= DayOf(r.invoice_date)
====
